---- MODULE Spec2Model ----
(***************************************************************************)
(* TotemOTP: the OTP orchestrator (packages/core/src/totem-otp.ts) running *)
(* against RedisOTPStorage (packages/storage-redis), with Redis modelled   *)
(* as the key space the storage's commands act on.                         *)
(*                                                                         *)
(* Every `await` of request() and validate() is a point where other calls  *)
(* may run, so each awaited capability call is one atomic step of the      *)
(* calling process; Redis runs a Lua script and a MULTI/EXEC block as one  *)
(* step.  Time is a global millisecond clock advancing in steps of TickMs. *)
(***************************************************************************)
EXTENDS Integers, Sequences, FiniteSets, TLC

VARIABLES now, blocks, otps, rq, vl, mt, rc, st, gn, sc

vars == <<now, blocks, otps, rq, vl, mt, rc, st, gn, sc>>

---------------------------------------------------------------------------
(* Bounds of the model *)

TickMs == 500
MaxTicks == 2
NumReq == 2
NumVal == 2

MaxNow == TickMs * MaxTicks
ReqProcs == 1..NumReq
\* the races on one recipient key take one call more
RaceProcs == 1..(NumReq + 1)
ValProcs == 1..NumVal
\* the validate calls that follow one another on one OTP take one call more
LifeProcs == 1..(NumVal + 1)
\* and run until the longest-lived record is gone
LifeTicks == MaxTicks + 2
\* the validateReceipt calls made on the receipts of one TotemOTP
NumRedeem == 2
\* the longest configuration list the matcher is run on
MaxEntries == 3
\* the largest GenerationConfig.length
MaxLength == 2
\* the markRequested and unmarkRequested calls made on the storage itself
MaxCalls == 4

---------------------------------------------------------------------------
(* Values *)

Undefined == "<undefined>"
NoTTL == -1
MsPerSecond == 1000

\* IOTPTarget: the targets the callers present
Targets ==
    { [type |-> "email",  value |-> "a@b.c", uniqueIdentifier |-> Undefined],
      [type |-> "email",  value |-> "a@b.c", uniqueIdentifier |-> ""],
      [type |-> "msisdn", value |-> "+661",  uniqueIdentifier |-> "user-1"],
      [type |-> "msisdn", value |-> "+15",   uniqueIdentifier |-> Undefined],
      [type |-> "email",  value |-> "x@y.z", uniqueIdentifier |-> Undefined] }

NoTarget == [type |-> Undefined, value |-> Undefined, uniqueIdentifier |-> Undefined]

\* The strings the generator can draw for one schema, cut down to a few.
GenReferences == {"R1"}
GenValues == {"111"}

\* ITotemOTPConfiguration.schemas, in configuration order.  hasMatch: the
\* entry has a match predicate; match: the targets the predicate accepts.
Schemas ==
    << [hasMatch |-> TRUE,
        match |-> { t \in Targets : t.type = "email" /\ t.value = "a@b.c" },
        successValidateCount |-> 1, purgeFromDbIn |-> 1500,
        canResendIn |-> 1000, expiresIn |-> 1000],
       [hasMatch |-> TRUE, match |-> { t \in Targets : t.type = "msisdn" },
        successValidateCount |-> 2, purgeFromDbIn |-> 1000,
        canResendIn |-> 500, expiresIn |-> 500] >>

\* ITotemOTPConfiguration.deliveryAgents, in configuration order: one agent
\* for email, one for the msisdn of one country.  "+15" has a schema and no
\* agent, "x@y.z" an agent and no schema.
DeliveryAgents ==
    << [hasMatch |-> TRUE, match |-> { t \in Targets : t.type = "email" }],
       [hasMatch |-> TRUE, match |-> { t \in Targets : t.type = "msisdn" /\ t.value = "+661" }] >>

---------------------------------------------------------------------------
(* Matcher *)

\* !entry.match || entry.match(target)
Accepts(entry, target) == ~entry.hasMatch \/ target \in entry.match

\* a matcher that passes over the entries without a match predicate
RECURSIVE FirstMatchPredicateOnly(_, _, _)
FirstMatchPredicateOnly(list, target, i) ==
    IF i > Len(list) THEN 0
    ELSE IF list[i].hasMatch /\ target \in list[i].match THEN i
    ELSE FirstMatchPredicateOnly(list, target, i + 1)

RECURSIVE FirstMatch(_, _, _)
FirstMatch(list, target, i) ==
    IF i > Len(list) THEN 0
    ELSE IF Accepts(list[i], target) THEN i
    ELSE FirstMatch(list, target, i + 1)

\* index of the schema matchSchema returns; 0: NoSchemaMatchedTargetConfigError
matchSchema(target) == FirstMatch(Schemas, target, 1)

\* a matchDeliveryAgent that falls back on the first agent
matchDeliveryAgentOrFirst(target) ==
    IF FirstMatch(DeliveryAgents, target, 1) = 0 THEN 1
    ELSE FirstMatch(DeliveryAgents, target, 1)

\* index of the agent matchDeliveryAgent returns; 0: NoDeliveryAgentMatchedConfigError
matchDeliveryAgent(target) == FirstMatch(DeliveryAgents, target, 1)

\* target.uniqueIdentifier || `${target.type}|${target.value}`
toReceipientKey(target) ==
    IF target.uniqueIdentifier \notin {Undefined, ""}
    THEN target.uniqueIdentifier
    ELSE target.type \o "|" \o target.value

RecipientKeys == { toReceipientKey(t) : t \in Targets }

---------------------------------------------------------------------------
(* Redis: a string key holding a counter, with an optional expiry *)

NoBlock == [present |-> FALSE, count |-> 0, exp |-> NoTTL]

RedisIncr(b) ==
    IF b.present THEN [b EXCEPT !.count = @ + 1]
    ELSE [present |-> TRUE, count |-> 1, exp |-> NoTTL]

\* a DECR that deletes the key
RedisDecrDeletes(b) == NoBlock

RedisDecr(b) ==
    IF b.present THEN [b EXCEPT !.count = @ - 1]
    ELSE [present |-> TRUE, count |-> -1, exp |-> NoTTL]

\* PEXPIRE key ms: a timeout that is not positive deletes the key
RedisPExpire(b, ms, t) == IF ms <= 0 THEN NoBlock ELSE [b EXCEPT !.exp = t + ms]

\* PTTL key: -2 no key, -1 no expiry, else the milliseconds left
RedisPTTL(b, t) ==
    IF ~b.present THEN -2 ELSE IF b.exp = NoTTL THEN -1 ELSE b.exp - t

\* SET key '1' PX ms
RedisSetPX(ms, t) == [present |-> TRUE, count |-> 1, exp |-> t + ms]

\* a key is gone once the clock has passed its expiry
Expired(exp, t) == exp # NoTTL /\ t > exp

\* a script that sets the expiry again when it rejects
MarkRequestedScriptExtends(b, ttl_ms, t) ==
    LET counted == RedisIncr(b) IN
    IF counted.count = 1
    THEN [block |-> RedisPExpire(counted, ttl_ms, t), ret |-> 0]
    ELSE LET remaining_ttl == RedisPTTL(counted, t) IN
         IF remaining_ttl <= 0
         THEN [block |-> RedisSetPX(ttl_ms, t), ret |-> 0]
         ELSE [block |-> RedisPExpire(counted, ttl_ms, t), ret |-> remaining_ttl]

\* a script without the branch for a key that has no expiry
MarkRequestedScriptNoReset(b, ttl_ms, t) ==
    LET counted == RedisIncr(b) IN
    IF counted.count = 1
    THEN [block |-> RedisPExpire(counted, ttl_ms, t), ret |-> 0]
    ELSE [block |-> counted, ret |-> RedisPTTL(counted, t)]

\* The Lua script of markRequested, run by Redis as one step:
\* the block after it and the number it returns.
MarkRequestedScript(b, ttl_ms, t) ==
    LET counted == RedisIncr(b) IN
    IF counted.count = 1
    THEN [block |-> RedisPExpire(counted, ttl_ms, t), ret |-> 0]
    ELSE LET remaining_ttl == RedisPTTL(counted, t) IN
         IF remaining_ttl <= 0
         THEN [block |-> RedisSetPX(ttl_ms, t), ret |-> 0]
         ELSE [block |-> counted, ret |-> remaining_ttl]

---------------------------------------------------------------------------
(* Redis: a hash per `<prefix>:<reference>:<value>`, with an optional expiry *)

\* getCompositeKey(reference, otpValue)
getCompositeKey(reference, value) == reference \o ":" \o value

NoHash == [h |-> <<>>, exp |-> NoTTL]

\* an HSET that replaces the hash by the fields given
RedisHSetReplace(k, fields) == [k EXCEPT !.h = fields]

\* HSET key field value ...: the fields given overwrite, the others stay
RedisHSet(k, fields) ==
    [k EXCEPT !.h = [f \in (DOMAIN k.h) \cup (DOMAIN fields) |->
                        IF f \in DOMAIN fields THEN fields[f] ELSE k.h[f]]]

\* HINCRBY key field 1: a missing key or field counts from 0
RedisHIncrBy(k, field) ==
    RedisHSet(k, field :> (IF field \in DOMAIN k.h THEN k.h[field] + 1 ELSE 1))

\* EXPIRE key seconds: a timeout that is not positive deletes the key
RedisExpire(k, seconds, t) ==
    IF seconds <= 0 THEN NoHash ELSE [k EXCEPT !.exp = t + seconds * MsPerSecond]

\* Math.ceil(a / b) for b > 0
CeilDiv(a, b) == -((-a) \div b)

\* RedisOTPStorage.store: the key after the MULTI block
StoreHash(k, otp, deletableAt, t) ==
    LET ttlSeconds == CeilDiv(deletableAt - t, MsPerSecond)
        hashData == [ target_type |-> otp.target.type,
                      target_value |-> otp.target.value,
                      target_unique_id |-> toReceipientKey(otp.target),
                      reference |-> otp.reference,
                      otp_value |-> otp.value,
                      expires_at_ms |-> otp.expiresAtMs,
                      resend_allowed_at_ms |-> otp.resendAllowedAtMs,
                      used |-> 0,
                      created_at |-> t ]
        written == RedisHSet(k, hashData)
    IN  IF ttlSeconds > 0 THEN RedisExpire(written, ttlSeconds, t) ELSE written

Field(data, f) == IF f \in DOMAIN data THEN data[f] ELSE Undefined

NoRecord == [found |-> FALSE, target |-> NoTarget, value |-> Undefined,
             reference |-> Undefined, expiresAtMs |-> Undefined, used |-> 0]

\* a fetchAndUsed that reports the counter HGETALL read, not the one HINCRBY
\* returned
ParseFetchedStale(otpReference, data, newUsedCount) ==
    IF DOMAIN data = {} THEN NoRecord
    ELSE [ found |-> TRUE,
           target |-> [ type |-> Field(data, "target_type"),
                        value |-> Field(data, "target_value"),
                        uniqueIdentifier |-> Undefined ],
           value |-> Field(data, "otp_value"),
           reference |-> otpReference,
           expiresAtMs |-> Field(data, "expires_at_ms"),
           used |-> IF "used" \in DOMAIN data THEN data.used ELSE 0 ]

\* RedisOTPStorage.fetchAndUsed: what it returns from the replies of
\* HGETALL (data) and HINCRBY (newUsedCount)
ParseFetched(otpReference, data, newUsedCount) ==
    IF DOMAIN data = {} THEN NoRecord
    ELSE [ found |-> TRUE,
           target |->
             [ type |-> Field(data, "target_type"),
               value |-> Field(data, "target_value"),
               uniqueIdentifier |->
                 IF "target_unique_id" \in DOMAIN data
                    /\ "target_type" \in DOMAIN data
                    /\ "target_value" \in DOMAIN data
                    /\ data.target_unique_id
                         # data.target_type \o "|" \o data.target_value
                 THEN data.target_unique_id
                 ELSE Undefined ],
           value |-> Field(data, "otp_value"),
           reference |-> otpReference,
           expiresAtMs |-> Field(data, "expires_at_ms"),
           used |-> newUsedCount ]

---------------------------------------------------------------------------
(* Calls in flight *)

Outcome(kind, n) == [kind |-> kind, n |-> n]
Pending == Outcome("pending", 0)

\* One request(target) call: the locals of TotemOTP.request, the calls it has
\* made (nMark .. nUnmark, the keys passed) and whether unmarkRequested gave
\* its block back (released); markRequested runs at nowEpoch.
\* holders: the calls whose block stood when this call's markRequested ran;
\* sent: the reference:value of the OTPValue given to sendMessageToAudience.
IdleRequest ==
    [ pc |-> "idle", target |-> NoTarget, schema |-> 0, nowEpoch |-> 0,
      reference |-> Undefined, value |-> Undefined, ttls |-> 0,
      e |-> "none", result |-> Pending,
      nMark |-> 0, nStore |-> 0, nSend |-> 0, nMarkAsSent |-> 0, nUnmark |-> 0,
      markKey |-> Undefined, unmarkKey |-> Undefined, sent |-> Undefined,
      released |-> FALSE, holders |-> {}, keyWasThere |-> FALSE ]

Aging(p) == Schemas[rq[p].schema]

\* p was let through by markRequested and its block has not been given back
Granted(p) == rq[p].nMark = 1 /\ rq[p].ttls = 0
                 /\ rq[p].result.kind # "MarkRequestedFailed"

\* p's block on `key` stands at time t: granted, not rolled back, and the
\* canResendIn of the granting call has not yet elapsed
Holds(p, key, t) ==
    /\ Granted(p)
    /\ rq[p].markKey = key
    /\ ~rq[p].released
    /\ t < rq[p].nowEpoch + Aging(p).canResendIn

\* a validateReceipient whose ResendBlockedError carries no remaining time
validateReceipientNoTtl(ttls) ==
    IF ttls = 0 THEN Outcome("proceed", 0) ELSE Outcome("ResendBlocked", 0)

\* validateReceipient: what request does with the number markRequested returned
validateReceipient(ttls) ==
    IF ttls = 0 THEN Outcome("proceed", 0) ELSE Outcome("ResendBlocked", ttls)

\* an invalidateReceipient that rebuilds the key from type and value alone
invalidateReceipientByAddress(target) == target.type \o "|" \o target.value

\* invalidateReceipient: the key unmarkRequested is called with
invalidateReceipient(target) == toReceipientKey(target)

---------------------------------------------------------------------------
(* TotemOTP.storageImpl *)

\* this._storage before the first use
NoStorage == 0

\* storage: this._storage, the instance held; made: the calls made of
\* configuration.storage(), the n-th of which returns instance n
IdleStorage == [storage |-> NoStorage, made |-> 0]

\* a storageImpl that asks the factory on every use
storageImplFresh(s) == [storage |-> s.made + 1, made |-> s.made + 1]

\* get storageImpl, lines 28-33: the state after this.storageImpl was read
storageImpl(s) ==
    IF s.storage = NoStorage
    THEN [storage |-> s.made + 1, made |-> s.made + 1]
    ELSE s

---------------------------------------------------------------------------
(* TotemOTP.request *)

\* the calls are numbered in the order they are made
NextToCall(procs, p) == \A q \in DOMAIN procs : q < p => procs[q].pc # "idle"

\* lines 37-52: resolve schema and agent, read the clock, generate, and
\* await validateReceipient -> storage.markRequested
RequestMark(p, target, reference, value) ==
    /\ rq[p].pc = "idle"
    /\ NextToCall(rq, p)
    /\ LET schema == matchSchema(target)
           agent == matchDeliveryAgent(target)
           key == toReceipientKey(target)
           ran == MarkRequestedScript(blocks[key], Schemas[schema].canResendIn, now)
           then == validateReceipient(ran.ret)
       IN  IF schema = 0 \/ agent = 0
           THEN /\ rq' = [rq EXCEPT ![p] =
                      [@ EXCEPT !.pc = "done", !.target = target, !.schema = schema,
                                !.result = IF schema = 0
                                           THEN Outcome("NoSchemaMatched", 0)
                                           ELSE Outcome("NoDeliveryAgentMatched", 0)]]
                /\ UNCHANGED <<blocks, st>>
           ELSE /\ blocks' = [blocks EXCEPT ![key] = ran.block]
                /\ st' = storageImpl(st)
                /\ rq' = [rq EXCEPT ![p] =
                      [@ EXCEPT !.target = target, !.schema = schema,
                                !.nowEpoch = now, !.reference = reference,
                                !.value = value,
                                !.nMark = @ + 1, !.markKey = key, !.ttls = ran.ret,
                                !.keyWasThere = blocks[key].present,
                                !.holders = { q \in RaceProcs \ {p} : Holds(q, key, now) },
                                !.pc = IF then.kind = "proceed" THEN "store" ELSE "done",
                                !.result = IF then.kind = "proceed" THEN Pending ELSE then]]
    /\ UNCHANGED <<now, otps, vl, mt, rc, gn, sc>>

\* line 52: markRequested rejects (the storage cannot be reached)
RequestMarkFails(p, target, reference, value) ==
    /\ rq[p].pc = "idle"
    /\ NextToCall(rq, p)
    /\ matchSchema(target) # 0
    /\ matchDeliveryAgent(target) # 0
    /\ rq' = [rq EXCEPT ![p] =
          [@ EXCEPT !.target = target, !.schema = matchSchema(target),
                    !.nowEpoch = now, !.reference = reference, !.value = value,
                    !.nMark = @ + 1, !.markKey = toReceipientKey(target),
                    !.pc = "done", !.result = Outcome("MarkRequestedFailed", 0)]]
    /\ st' = storageImpl(st)
    /\ UNCHANGED <<now, blocks, otps, vl, mt, rc, gn, sc>>

\* the IOTPValue built at lines 43-49
OtpVal(p) ==
    [ target |-> rq[p].target, reference |-> rq[p].reference, value |-> rq[p].value,
      expiresAtMs |-> rq[p].nowEpoch + Aging(p).expiresIn,
      resendAllowedAtMs |-> rq[p].nowEpoch + Aging(p).canResendIn ]

\* a request that reads the clock again when it stores
RequestStoreRereadsClock(p) ==
    /\ rq[p].pc = "store"
    /\ LET k == getCompositeKey(rq[p].reference, rq[p].value)
           late == [OtpVal(p) EXCEPT !.expiresAtMs = now + Aging(p).expiresIn]
       IN  otps' = [otps EXCEPT ![k] =
                StoreHash(@, late, now + Aging(p).purgeFromDbIn, now)]
    /\ rq' = [rq EXCEPT ![p] = [@ EXCEPT !.nStore = @ + 1, !.pc = "send"]]
    /\ st' = storageImpl(st)
    /\ UNCHANGED <<now, blocks, vl, mt, rc, gn, sc>>

\* line 56: await storage.store(otpVal, nowEpoch + purgeFromDbIn)
RequestStore(p) ==
    /\ rq[p].pc = "store"
    /\ LET k == getCompositeKey(rq[p].reference, rq[p].value)
       IN  otps' = [otps EXCEPT ![k] =
                StoreHash(@, OtpVal(p), rq[p].nowEpoch + Aging(p).purgeFromDbIn, now)]
    /\ rq' = [rq EXCEPT ![p] = [@ EXCEPT !.nStore = @ + 1, !.pc = "send"]]
    /\ st' = storageImpl(st)
    /\ UNCHANGED <<now, blocks, vl, mt, rc, gn, sc>>

\* a request that calls store again when store has rejected
RequestStoreRetried(p) ==
    /\ rq[p].pc = "store"
    /\ rq[p].nStore < 2
    /\ rq' = [rq EXCEPT ![p] = [@ EXCEPT !.nStore = @ + 1]]
    /\ st' = storageImpl(st)
    /\ UNCHANGED <<now, blocks, otps, vl, mt, rc, gn, sc>>

\* line 56 rejects: caught at line 62
RequestStoreFails(p) ==
    /\ rq[p].pc = "store"
    /\ rq' = [rq EXCEPT ![p] =
          [@ EXCEPT !.nStore = @ + 1, !.e = "StoreFailed", !.pc = "unmark"]]
    /\ st' = storageImpl(st)
    /\ UNCHANGED <<now, blocks, otps, vl, mt, rc, gn, sc>>

\* a request that delivers before it has stored
RequestSendBeforeStore(p) ==
    /\ rq[p].pc = "store"
    /\ rq[p].nSend = 0
    /\ rq' = [rq EXCEPT ![p] = [@ EXCEPT !.nSend = @ + 1]]
    /\ UNCHANGED <<now, blocks, otps, vl, mt, rc, st, gn, sc>>

\* line 58: await agent.sendMessageToAudience(otpVal)
RequestSend(p) ==
    /\ rq[p].pc = "send"
    /\ rq' = [rq EXCEPT ![p] =
          [@ EXCEPT !.nSend = @ + 1, !.pc = "markAsSent",
                    !.sent = getCompositeKey(OtpVal(p).reference, OtpVal(p).value)]]
    /\ UNCHANGED <<now, blocks, otps, vl, mt, rc, st, gn, sc>>

\* line 58 rejects: caught at line 62
RequestSendFails(p) ==
    /\ rq[p].pc = "send"
    /\ rq' = [rq EXCEPT ![p] =
          [@ EXCEPT !.nSend = @ + 1, !.e = "DeliveryFailed", !.pc = "unmark",
                    !.sent = getCompositeKey(OtpVal(p).reference, OtpVal(p).value)]]
    /\ UNCHANGED <<now, blocks, otps, vl, mt, rc, st, gn, sc>>

\* lines 59-61 and 67: await storage.markAsSent(reference, otp, receiptId); return
RequestMarkAsSent(p) ==
    /\ rq[p].pc = "markAsSent"
    /\ LET k == getCompositeKey(rq[p].reference, rq[p].value)
       IN  otps' = [otps EXCEPT ![k] = RedisHSet(@, [receipt_id |-> "receipt"])]
    /\ rq' = [rq EXCEPT ![p] =
          [@ EXCEPT !.nMarkAsSent = @ + 1, !.pc = "done", !.result = Outcome("ok", 0)]]
    /\ st' = storageImpl(st)
    /\ UNCHANGED <<now, blocks, vl, mt, rc, gn, sc>>

\* line 60 rejects: caught at line 62
RequestMarkAsSentFails(p) ==
    /\ rq[p].pc = "markAsSent"
    /\ rq' = [rq EXCEPT ![p] =
          [@ EXCEPT !.nMarkAsSent = @ + 1, !.e = "MarkAsSentFailed", !.pc = "unmark"]]
    /\ st' = storageImpl(st)
    /\ UNCHANGED <<now, blocks, otps, vl, mt, rc, gn, sc>>

\* lines 63-64: await invalidateReceipient(target); throw e
RequestUnmark(p) ==
    /\ rq[p].pc = "unmark"
    /\ LET key == invalidateReceipient(rq[p].target)
       IN  /\ blocks' = [blocks EXCEPT ![key] = RedisDecr(@)]
           /\ rq' = [rq EXCEPT ![p] =
                 [@ EXCEPT !.nUnmark = @ + 1, !.unmarkKey = key, !.released = TRUE,
                           !.pc = "done", !.result = Outcome(rq[p].e, 0)]]
    /\ st' = storageImpl(st)
    /\ UNCHANGED <<now, otps, vl, mt, rc, gn, sc>>

\* line 63 rejects: the rejection leaves request() in place of e
RequestUnmarkFails(p) ==
    /\ rq[p].pc = "unmark"
    /\ rq' = [rq EXCEPT ![p] =
          [@ EXCEPT !.nUnmark = @ + 1,
                    !.unmarkKey = invalidateReceipient(rq[p].target),
                    !.pc = "done", !.result = Outcome("UnmarkRequestedFailed", 0)]]
    /\ st' = storageImpl(st)
    /\ UNCHANGED <<now, blocks, otps, vl, mt, rc, gn, sc>>

---------------------------------------------------------------------------
(* The clock; Redis drops the keys whose expiry has passed *)

Advance(limit) ==
    /\ now + TickMs <= limit
    /\ now' = now + TickMs
    /\ blocks' = [k \in DOMAIN blocks |->
                    IF Expired(blocks[k].exp, now') THEN NoBlock ELSE blocks[k]]
    /\ otps' = [k \in DOMAIN otps |->
                    IF Expired(otps[k].exp, now') THEN NoHash ELSE otps[k]]
    /\ UNCHANGED <<rq, vl, mt, rc, st, gn, sc>>

Tick == Advance(MaxNow)

\* the clock of the runs that follow one OTP until its record is purged
TickLife == Advance(TickMs * LifeTicks)

---------------------------------------------------------------------------
(* TotemOTP.validate(reference, otpValue) *)

\* what callers may present: the generated strings, and strings never generated
References == GenReferences \cup {"R9"}
Values == GenValues \cup {"000"}

CompositeKeys == { getCompositeKey(r, v) : r \in References, v \in Values }

\* One validate call: its arguments, what fetchAndUsed returned, its outcome;
\* stored: the key held a record written by store when fetchAndUsed ran;
\* afterStore: fetchAndUsed ran after a request had stored the pair;
\* late: and after the deletableAt that request gave store;
\* expired: it found the stored record at or after the record's expiresAtMs;
\* purpose: <<>> when validate was called without a purpose list, else <<list>>.
IdleValidate ==
    [ pc |-> "idle", reference |-> Undefined, value |-> Undefined, purpose |-> <<>>,
      otpFromDb |-> NoRecord, result |-> Pending, nFetch |-> 0, stored |-> FALSE,
      afterStore |-> FALSE, late |-> FALSE, expired |-> FALSE ]

\* the hash under the key was written by store
StoredVerbatim(k) == "otp_value" \in DOMAIN k.h

\* a request has stored an OTP under the pair: its store has resolved
StoreDone(reference, value) ==
    \E q \in DOMAIN rq :
        /\ rq[q].nStore = 1 /\ rq[q].e # "StoreFailed" /\ rq[q].pc # "store"
        /\ rq[q].reference = reference /\ rq[q].value = value

\* t is past the deletableAt a request gave store for the pair
PastDeletableAt(reference, value, t) ==
    \E q \in DOMAIN rq :
        /\ rq[q].nStore = 1 /\ rq[q].e # "StoreFailed" /\ rq[q].pc # "store"
        /\ rq[q].reference = reference /\ rq[q].value = value
        /\ t > rq[q].nowEpoch + Schemas[rq[q].schema].purgeFromDbIn

\* a fetchAndUsed whose counter stops at 2
FetchAndUsedCapped(k, otpReference) ==
    LET data == k.h
        after == IF "used" \in DOMAIN k.h /\ k.h.used >= 2
                 THEN k ELSE RedisHIncrBy(k, "used")
        newUsedCount == after.h.used
    IN  [key |-> after, ret |-> ParseFetched(otpReference, data, newUsedCount)]

\* a fetchAndUsed that reads the counter and adds one without writing it back
FetchAndUsedLostUpdate(k, otpReference) ==
    LET data == k.h
        newUsedCount == IF "used" \in DOMAIN k.h THEN k.h.used + 1 ELSE 1
    IN  [key |-> k, ret |-> ParseFetched(otpReference, data, newUsedCount)]

\* RedisOTPStorage.fetchAndUsed: MULTI (HGETALL, HINCRBY used 1) EXEC, one step
\* of Redis: the key after it and the record returned
FetchAndUsed(k, otpReference) ==
    LET data == k.h
        after == RedisHIncrBy(k, "used")
        newUsedCount == after.h.used
    IN  [key |-> after, ret |-> ParseFetched(otpReference, data, newUsedCount)]

\* a validate that already refuses the successValidateCount-th use
ValidatedOffByOne(otpFromDb) ==
    IF ~otpFromDb.found THEN Outcome("OTPMismatched", 0)
    ELSE LET schema == matchSchema(otpFromDb.target) IN
         IF schema = 0 THEN Outcome("NoSchemaMatched", 0)
         ELSE IF otpFromDb.used >= Schemas[schema].successValidateCount
              THEN Outcome("OTPUsed", otpFromDb.used)
              ELSE Outcome("ok", otpFromDb.used)

\* a validate that does not look at the used count
ValidatedUncounted(otpFromDb) ==
    IF ~otpFromDb.found THEN Outcome("OTPMismatched", 0)
    ELSE IF matchSchema(otpFromDb.target) = 0 THEN Outcome("NoSchemaMatched", 0)
    ELSE Outcome("ok", otpFromDb.used)

\* lines 78-90, from the record fetched to the outcome
Validated(otpFromDb) ==
    IF ~otpFromDb.found THEN Outcome("OTPMismatched", 0)
    ELSE LET schema == matchSchema(otpFromDb.target) IN
         IF schema = 0 THEN Outcome("NoSchemaMatched", 0)
         ELSE IF otpFromDb.used > Schemas[schema].successValidateCount
              THEN Outcome("OTPUsed", otpFromDb.used)
              ELSE Outcome("ok", otpFromDb.used)

\* line 77: await storage.fetchAndUsed(reference, otpValue); observe: the
\* time of the call is set against the request's store, its deletableAt and
\* the record's expiresAtMs
ValidateFetchAt(p, reference, value, purpose, observe) ==
    /\ p = Len(vl) + 1
    /\ LET k == getCompositeKey(reference, value)
           ran == FetchAndUsed(otps[k], reference)
       IN  /\ otps' = [otps EXCEPT ![k] = ran.key]
           /\ vl' = Append(vl,
                 [IdleValidate
                     EXCEPT !.pc = "fetched", !.reference = reference, !.value = value,
                           !.purpose = purpose,
                           !.otpFromDb = ran.ret, !.nFetch = @ + 1,
                           !.stored = StoredVerbatim(otps[k]),
                           !.afterStore = observe /\ StoreDone(reference, value),
                           !.late = observe /\ PastDeletableAt(reference, value, now),
                           !.expired = /\ observe
                                       /\ StoredVerbatim(otps[k])
                                       /\ now >= otps[k].h.expires_at_ms])
    /\ st' = storageImpl(st)
    /\ UNCHANGED <<now, blocks, rq, mt, rc, gn, sc>>

ValidateFetch(p, reference, value) == ValidateFetchAt(p, reference, value, <<>>, FALSE)

\* line 77 rejects
ValidateFetchFails(p, reference, value) ==
    /\ p = Len(vl) + 1
    /\ vl' = Append(vl,
          [IdleValidate
              EXCEPT !.pc = "done", !.reference = reference, !.value = value,
                    !.nFetch = @ + 1, !.stored = FALSE,
                    !.result = Outcome("FetchAndUsedFailed", 0)])
    /\ st' = storageImpl(st)
    /\ UNCHANGED <<now, blocks, otps, rq, mt, rc, gn, sc>>

\* RedisOTPStorage.delete(reference, value): DEL key
Delete(reference, value) ==
    /\ otps[getCompositeKey(reference, value)] # NoHash
    /\ otps' = [otps EXCEPT ![getCompositeKey(reference, value)] = NoHash]
    /\ UNCHANGED <<now, blocks, rq, vl, mt, rc, st, gn, sc>>

---------------------------------------------------------------------------
(* The matcher on configurations of every shape *)

\* the targets the predicates of the configurations below tell apart
MatchTargets == { t \in Targets : t.uniqueIdentifier # "" /\ t.value # "x@y.z" }

\* a configuration entry: without a match predicate, or with one that
\* accepts some of the targets
MatchEntries ==
    { [hasMatch |-> FALSE, match |-> {}] }
        \cup { [hasMatch |-> TRUE, match |-> m] : m \in SUBSET { t \in MatchTargets : t.value # "+15" } }

ListsUpTo(n) == UNION { [1..k -> MatchEntries] : k \in 0..n }

NotResolved == -1

\* One TotemOTP under a configuration (schemas, agents) and a target put to
\* its matcher; schema, agent: the index returned (0: the error thrown)
IdleMatch ==
    [ schemas |-> <<>>, agents |-> <<>>, target |-> NoTarget,
      schema |-> NotResolved, agent |-> NotResolved ]

\* this.matchSchema(target) under mt.schemas
ResolveSchema ==
    /\ mt.target # NoTarget
    /\ mt.schema = NotResolved
    /\ mt' = [mt EXCEPT !.schema = FirstMatch(mt.schemas, mt.target, 1)]
    /\ UNCHANGED <<now, blocks, otps, rq, vl, rc, st, gn, sc>>

\* this.matchDeliveryAgent(target) under mt.agents
ResolveDeliveryAgent ==
    /\ mt.target # NoTarget
    /\ mt.agent = NotResolved
    /\ mt' = [mt EXCEPT !.agent = FirstMatch(mt.agents, mt.target, 1)]
    /\ UNCHANGED <<now, blocks, otps, rq, vl, rc, st, gn, sc>>

---------------------------------------------------------------------------
(* Validation receipts: JoseValidationReceiptGenerator and
   TotemOTP.validateReceipt *)

\* JoseValidationReceiptGeneratorOptions: a generator
BaseGenerator ==
    [sharedSecret |-> "s1", issuer |-> "totem-otp",
     audience |-> "totem-otp-client", expirationTimeMs |-> 1000]

\* the generator, and generators that differ from it in the secret, the
\* issuer, the audience or the expiration time
Generators ==
    { BaseGenerator,
      [BaseGenerator EXCEPT !.expirationTimeMs = 500],
      [BaseGenerator EXCEPT !.expirationTimeMs = 1500],
      [sharedSecret |-> "s2", issuer |-> "totem-otp",
       audience |-> "totem-otp-client", expirationTimeMs |-> 1000],
      [sharedSecret |-> "s1", issuer |-> "other-issuer",
       audience |-> "totem-otp-client", expirationTimeMs |-> 1000],
      [sharedSecret |-> "s1", issuer |-> "totem-otp",
       audience |-> "other-client", expirationTimeMs |-> 1000] }

NoGenerator ==
    [sharedSecret |-> Undefined, issuer |-> Undefined,
     audience |-> Undefined, expirationTimeMs |-> 0]

\* the purpose lists receipts are made for, and the purposes asked for
PurposeLists == { <<>>, <<"login">>, <<"login", "transfer">> }
Purposes == {"login", "Login", "transfer"}

\* the target of the receipts another generator hands back
ReceiptTarget == [type |-> "email", value |-> "a@b.c", uniqueIdentifier |-> Undefined]

\* the OTP records receipts are made from
ReceiptRecords ==
    { [target |-> t, reference |-> r] :
        t \in { x \in Targets : x.value \in {"a@b.c", "+661"} }, r \in References }

\* a JSON encoding that leaves out the empty strings too
JsonObjectDropsFalsy(o) ==
    [f \in { x \in DOMAIN o : o[x] \notin {Undefined, ""} } |-> o[f]]

\* JSON.parse(JSON.stringify(o)) of an object of strings, as the JWT payload
\* goes through: the properties that are undefined are left out
JsonObject(o) == [f \in { x \in DOMAIN o : o[x] # Undefined } |-> o[f]]

\* createValidationReceipt(otp, purpose) of generator g at nowMs: a signed
\* JWT, its claims, and key, the secret its HS256 signature was made with
createValidationReceipt(g, otp, purpose, nowMs) ==
    LET expiresAtMs == nowMs + g.expirationTimeMs IN
    [ target |-> JsonObject(otp.target), purpose |-> purpose, ref |-> otp.reference,
      iat |-> nowMs \div MsPerSecond,
      exp |-> expiresAtMs \div MsPerSecond,
      iss |-> g.issuer, aud |-> g.audience,
      sub |-> otp.target.type \o ":" \o otp.target.value,
      key |-> g.sharedSecret ]

\* what a receipt generator hands back: a receipt, or what it threw
NoReceipt == [target |-> NoTarget, purpose |-> <<>>, expiresAtMs |-> 0]
Returned(receipt) == [kind |-> "receipt", message |-> "", receipt |-> receipt]
Threw(kind, message) == [kind |-> kind, message |-> message, receipt |-> NoReceipt]

\* jose's jwtVerify(receipt, secret, {issuer, audience}) at nowMs: the
\* signature, then the iss, aud and exp claims; "" when the token passes
jwtVerify(token, g, nowMs) ==
    IF token.key # g.sharedSecret THEN "signature verification failed"
    ELSE IF token.iss # g.issuer THEN "unexpected \"iss\" claim value"
    ELSE IF token.aud # g.audience THEN "unexpected \"aud\" claim value"
    ELSE IF token.exp <= nowMs \div MsPerSecond
         THEN "\"exp\" claim timestamp check failed"
    ELSE ""

\* a generator that does not compare the reference
validateReceiptAnyReference(g, reference, token, nowMs) ==
    LET failed == jwtVerify(token, g, nowMs) IN
    IF failed # "" THEN Threw("Error", "Invalid JWT receipt: " \o failed)
    ELSE Returned([ target |-> token.target, purpose |-> token.purpose,
                    expiresAtMs |-> token.exp * MsPerSecond ])

\* JoseValidationReceiptGenerator.validateReceipt(reference, receipt) of
\* generator g at nowMs
validateReceipt(g, reference, token, nowMs) ==
    LET failed == jwtVerify(token, g, nowMs) IN
    IF failed # "" THEN Threw("Error", "Invalid JWT receipt: " \o failed)
    ELSE IF token.ref # reference
         THEN Threw("Error", "Invalid JWT receipt: "
                        \o "JWT reference does not match provided reference")
    ELSE Returned([ target |-> token.target, purpose |-> token.purpose,
                    expiresAtMs |-> token.exp * MsPerSecond ])

\* new ValidationReceiptError(message)
ValidationReceiptError(message) ==
    Threw("ValidationReceiptError", "Validation receipt error: " \o message)

\* an includes that looks at the first element only
IncludesFirstOnly(list, x) == Len(list) > 0 /\ list[1] = x

\* list.includes(x), on strings
Includes(list, x) == \E i \in 1..Len(list) : list[i] = x

\* a TotemOTP.validateReceipt that puts its own words in place of the
\* generator's
TotemValidateReceiptOpaque(returned, purpose, nowEpoch) ==
    IF returned.kind = "receipt"
    THEN IF returned.receipt.expiresAtMs <= nowEpoch
         THEN ValidationReceiptError("Receipt has expired")
         ELSE IF ~(\E i \in 1..Len(returned.receipt.purpose) :
                     returned.receipt.purpose[i] = purpose)
              THEN ValidationReceiptError("Receipt does not include purpose: " \o purpose)
              ELSE returned
    ELSE ValidationReceiptError("Invalid receipt")

\* a TotemOTP.validateReceipt for which a receipt that expires now is still good
TotemValidateReceiptLate(returned, purpose, nowEpoch) ==
    IF returned.kind = "receipt"
    THEN IF returned.receipt.expiresAtMs < nowEpoch
         THEN ValidationReceiptError("Receipt has expired")
         ELSE IF ~Includes(returned.receipt.purpose, purpose)
              THEN ValidationReceiptError("Receipt does not include purpose: " \o purpose)
              ELSE returned
    ELSE IF returned.kind = "ValidationReceiptError" THEN returned
    ELSE IF returned.kind = "Error" THEN ValidationReceiptError(returned.message)
    ELSE ValidationReceiptError("Invalid receipt")

\* TotemOTP.validateReceipt, lines 99-120, from what the generator handed back
\* to what the call returns or throws
TotemValidateReceipt(returned, purpose, nowEpoch) ==
    IF returned.kind = "receipt"
    THEN IF returned.receipt.expiresAtMs <= nowEpoch
         THEN ValidationReceiptError("Receipt has expired")
         ELSE IF ~Includes(returned.receipt.purpose, purpose)
              THEN ValidationReceiptError("Receipt does not include purpose: " \o purpose)
              ELSE returned
    ELSE IF returned.kind = "ValidationReceiptError" THEN returned
    ELSE IF returned.kind = "Error" THEN ValidationReceiptError(returned.message)
    ELSE ValidationReceiptError("Invalid receipt")

\* new UnmatchedValidationReceipt()
UnmatchedValidationReceipt ==
    Threw("UnmatchedValidationReceipt",
          "No validation receipt generator implementation available")

\* generator: configuration.validationReceipt of the TotemOTP whose validate
\* issues receipts, <<>> when it has none; made: the createValidationReceipt
\* calls made (generator, record, purpose list, time); token: the tokens they
\* returned; call: the validateReceipt calls made: the generator (jose: TRUE)
\* or the other implementation of IValidationReceiptGenerator each ran
\* under, the token and the arguments given, the time it ran at, what the
\* generator handed back and what the call came to.
IdleReceipts == [ generator |-> <<>>, made |-> <<>>, token |-> <<>>, call |-> <<>> ]

\* the receipts after generator g has made one for the record
Issue(r, g, otp, purpose, nowMs) ==
    [r EXCEPT !.made = Append(@, [generator |-> g, otp |-> otp,
                                  purpose |-> purpose, nowMs |-> nowMs]),
              !.token = Append(@, createValidationReceipt(g, otp, purpose, nowMs))]

\* generator g makes a receipt for the record
CreateReceipt(g, otp, purpose) ==
    /\ rc.token = <<>>
    /\ rc' = Issue(rc, g, otp, purpose, now)
    /\ UNCHANGED <<now, blocks, otps, rq, vl, mt, st, gn, sc>>

\* totem.validateReceipt(reference, token, purpose) of a TotemOTP configured
\* with the jose generator g
ValidateReceiptJose(g, reference, purpose) ==
    /\ rc.token # <<>>
    /\ rc.call = <<>>
    /\ LET returned == validateReceipt(g, reference, rc.token[1], now)
       IN  rc' = [rc EXCEPT !.call =
                    << [ jose |-> TRUE, generator |-> g, tokenNo |-> 1,
                         reference |-> reference, purpose |-> purpose,
                         at |-> now, returned |-> returned,
                         result |-> TotemValidateReceipt(returned, purpose, now) ] >>]
    /\ UNCHANGED <<now, blocks, otps, rq, vl, mt, st, gn, sc>>

\* a TotemOTP.validateReceipt that asks for the generator inside its try block
TotemValidateReceiptCaught(config, returned, purpose, nowEpoch) ==
    IF config = <<>>
    THEN ValidationReceiptError(UnmatchedValidationReceipt.message)
    ELSE TotemValidateReceipt(returned, purpose, nowEpoch)

\* TotemOTP.validateReceipt, lines 93-121, under configuration.validationReceipt
\* = config: getValidationReceiptGenerator throws at line 98, outside the try
\* block, when there is none
TotemValidateReceiptUnder(config, returned, purpose, nowEpoch) ==
    IF config = <<>>
    THEN UnmatchedValidationReceipt
    ELSE TotemValidateReceipt(returned, purpose, nowEpoch)

\* totem.validateReceipt(reference, token, purpose) of the TotemOTP whose
\* validate issues the receipts, on the i-th token issued (0: a string, when
\* none can have been issued), as the call is recorded
RedeemCall(i, reference, purpose) ==
    LET returned == IF rc.generator = <<>> THEN Threw("none", "")
                    ELSE validateReceipt(rc.generator[1], reference, rc.token[i], now)
    IN  [ jose |-> rc.generator # <<>>,
          generator |-> IF rc.generator = <<>> THEN NoGenerator ELSE rc.generator[1],
          tokenNo |-> i,
          reference |-> reference, purpose |-> purpose,
          at |-> now, returned |-> returned,
          result |-> TotemValidateReceiptUnder(rc.generator, returned, purpose, now) ]

\* a validateReceipt that honours a token once
RedeemOnce(i, reference, purpose) ==
    /\ Len(rc.call) < NumRedeem
    /\ \/ i \in DOMAIN rc.token /\ rc.generator # <<>>
       \/ i = 0 /\ rc.generator = <<>>
    /\ rc' = [rc EXCEPT !.call = Append(@,
                 IF \E c \in DOMAIN rc.call : rc.call[c].tokenNo = i
                 THEN [RedeemCall(i, reference, purpose)
                          EXCEPT !.result = ValidationReceiptError("Receipt already used")]
                 ELSE RedeemCall(i, reference, purpose))]
    /\ UNCHANGED <<now, blocks, otps, rq, vl, mt, st, gn, sc>>

Redeem(i, reference, purpose) ==
    /\ Len(rc.call) < NumRedeem
    /\ \/ i \in DOMAIN rc.token /\ rc.generator # <<>>
       \/ i = 0 /\ rc.generator = <<>>
    /\ rc' = [rc EXCEPT !.call = Append(@, RedeemCall(i, reference, purpose))]
    /\ UNCHANGED <<now, blocks, otps, rq, vl, mt, st, gn, sc>>

\* TotemOTP.validate, lines 78-90: without a purpose list the count is returned; with one, the
\* token the configured generator makes of the record (result.n: its number
\* among the tokens issued), or UnmatchedValidationReceipt thrown at line 87
ValidateFinish(p) ==
    /\ p \in DOMAIN vl
    /\ vl[p].pc = "fetched"
    /\ LET checked == Validated(vl[p].otpFromDb)
           asked == vl[p].purpose # <<>> /\ checked.kind = "ok"
       IN  /\ vl' = [vl EXCEPT ![p] =
                 [@ EXCEPT !.pc = "done",
                           !.result = IF ~asked THEN checked
                                      ELSE IF rc.generator = <<>>
                                           THEN Outcome("UnmatchedValidationReceipt", 0)
                                           ELSE Outcome("token", Len(rc.token) + 1)]]
           /\ rc' = IF asked /\ rc.generator # <<>>
                    THEN Issue(rc, rc.generator[1], vl[p].otpFromDb, vl[p].purpose[1], now)
                    ELSE rc
    /\ UNCHANGED <<now, blocks, otps, rq, mt, st, gn, sc>>

\* line 88 rejects: createValidationReceipt of the generator fails, and the
\* rejection leaves validate as it is
ValidateCreateFails(p) ==
    /\ p \in DOMAIN vl
    /\ vl[p].pc = "fetched"
    /\ vl[p].purpose # <<>>
    /\ Validated(vl[p].otpFromDb).kind = "ok"
    /\ rc.generator # <<>>
    /\ vl' = [vl EXCEPT ![p] = [@ EXCEPT !.pc = "done",
                                        !.result = Outcome("CreateValidationReceiptFailed", 0)]]
    /\ UNCHANGED <<now, blocks, otps, rq, mt, rc, st, gn, sc>>

\* what another implementation of IValidationReceiptGenerator may hand back
\* at time t
OtherReturns(t) ==
    { Returned([target |-> ReceiptTarget, purpose |-> l, expiresAtMs |-> e]) :
          l \in PurposeLists, e \in {t - TickMs, t, t + TickMs} }
      \cup { Threw("Error", "Token is malformed"),
             ValidationReceiptError("Token is revoked"),
             Threw("NonError", "") }

\* totem.validateReceipt(reference, token, purpose) of a TotemOTP configured
\* with another generator
ValidateReceiptOther(returned, reference, purpose) ==
    /\ rc.call = <<>>
    /\ rc' = [rc EXCEPT !.call =
                 << [ jose |-> FALSE, generator |-> NoGenerator, tokenNo |-> 0,
                      reference |-> reference, purpose |-> purpose,
                      at |-> now, returned |-> returned,
                      result |-> TotemValidateReceipt(returned, purpose, now) ] >>]
    /\ UNCHANGED <<now, blocks, otps, rq, vl, mt, st, gn, sc>>

---------------------------------------------------------------------------
(* Specifications *)


Init ==
    /\ now = 0
    /\ blocks = [k \in RecipientKeys |-> NoBlock]
    /\ otps = [k \in CompositeKeys |-> NoHash]
    /\ rq = [p \in RaceProcs |-> IdleRequest]
    /\ vl = <<>>
    /\ mt = IdleMatch
    /\ rc = IdleReceipts
    /\ st = IdleStorage
    /\ gn = <<>>
    /\ sc = <<>>

Request(p) ==
    \/ \E t \in Targets, r \in GenReferences, v \in GenValues : RequestMark(p, t, r, v)
    \/ \E t \in Targets, r \in GenReferences, v \in GenValues : RequestMarkFails(p, t, r, v)
    \/ RequestStore(p)
    \/ RequestStoreFails(p)
    \/ RequestSend(p)
    \/ RequestSendFails(p)
    \/ RequestMarkAsSent(p)
    \/ RequestMarkAsSentFails(p)
    \/ RequestUnmark(p)
    \/ RequestUnmarkFails(p)

Validate(p) ==
    \/ \E r \in References, v \in Values : ValidateFetch(p, r, v)
    \/ \E r \in References, v \in Values : ValidateFetchFails(p, r, v)
    \/ ValidateFinish(p)

\* request calls, one after or beside the other
Next ==
    \/ \E p \in ReqProcs : Request(p)
    \/ Tick

Spec == Init /\ [][Next]_vars

\* request calls racing on the recipient keys
NextRace ==
    \/ \E p \in RaceProcs : Request(p)
    \/ Tick

SpecRace == Init /\ [][NextRace]_vars

\* one request, and validate calls racing on the records
NextValidate ==
    \/ Request(1)
    \/ \E p \in ValProcs : Validate(p)
    \/ \E r \in GenReferences, v \in GenValues : Delete(r, v)
    \/ Tick

SpecValidate == Init /\ [][NextValidate]_vars

\* the calls made before call p have returned
AfterTheOthers(p) == \A q \in DOMAIN vl : q < p => vl[q].pc = "done"

\* validate as the holder of the OTP calls it: with the pair request
\* generates, one call after the other
ValidateLife(p) ==
    \/ \E r \in GenReferences, v \in GenValues :
          AfterTheOthers(p) /\ ValidateFetchAt(p, r, v, <<>>, TRUE)
    \/ \E r \in GenReferences, v \in GenValues :
          AfterTheOthers(p) /\ ValidateFetchFails(p, r, v)
    \/ ValidateFinish(p)

\* one request, and the validate calls on its OTP until the record is purged
NextLife ==
    \/ Request(1)
    \/ \E p \in LifeProcs : ValidateLife(p)
    \/ TickLife

SpecLife == Init /\ [][NextLife]_vars

\* the matcher, for every configuration of up to MaxEntries schemas and
\* fewer agents, and every target
InitMatch ==
    /\ now = 0
    /\ blocks = [k \in RecipientKeys |-> NoBlock]
    /\ otps = [k \in CompositeKeys |-> NoHash]
    /\ rq = [p \in RaceProcs |-> IdleRequest]
    /\ vl = <<>>
    /\ rc = IdleReceipts
    /\ st = IdleStorage
    /\ gn = <<>>
    /\ sc = <<>>
    /\ \E schemas \in ListsUpTo(MaxEntries), agents \in ListsUpTo(MaxEntries - 1),
          target \in MatchTargets :
          mt = [IdleMatch EXCEPT !.schemas = schemas, !.agents = agents,
                                 !.target = target]

NextMatch ==
    \/ ResolveSchema
    \/ ResolveDeliveryAgent

SpecMatch == InitMatch /\ [][NextMatch]_vars

\* a receipt made and a receipt put to validateReceipt
NextReceipt ==
    \/ \E g \in Generators, o \in ReceiptRecords, l \in PurposeLists : CreateReceipt(g, o, l)
    \/ \E g \in Generators, r \in References, u \in Purposes : ValidateReceiptJose(g, r, u)
    \/ \E x \in OtherReturns(now), r \in References, u \in Purposes :
          ValidateReceiptOther(x, r, u)
    \/ Tick

SpecReceipt == Init /\ [][NextReceipt]_vars

\* one TotemOTP, with a receipt generator or without
InitRedeem ==
    /\ now = 0
    /\ blocks = [k \in RecipientKeys |-> NoBlock]
    /\ otps = [k \in CompositeKeys |-> NoHash]
    /\ rq = [p \in RaceProcs |-> IdleRequest]
    /\ vl = <<>>
    /\ mt = IdleMatch
    /\ st = IdleStorage
    /\ gn = <<>>
    /\ sc = <<>>
    /\ \E config \in {<<>>, <<BaseGenerator>>} :
          rc = [IdleReceipts EXCEPT !.generator = config]

\* request, for an e-mail address and a phone number, when storage and
\* delivery succeed
RequestRedeem(p) ==
    \/ \E o \in ReceiptRecords : o.target.uniqueIdentifier # "" /\ RequestMark(p, o.target, "R1", "111")
    \/ RequestStore(p)
    \/ RequestSend(p)
    \/ RequestMarkAsSent(p)

\* validate with the pair request delivered, with a purpose list or without,
\* one call after the other
ValidateRedeem(p) ==
    \/ \E r \in GenReferences, v \in GenValues, l \in {<<>>, << <<"login">> >>} :
          /\ rq[1].pc = "done"
          /\ AfterTheOthers(p)
          /\ ValidateFetchAt(p, r, v, l, FALSE)
    \/ ValidateFinish(p)
    \/ ValidateCreateFails(p)

\* one request, the validate calls on its OTP and the validateReceipt calls
\* on the receipts they return
NextRedeem ==
    \/ RequestRedeem(1)
    \/ \E p \in ValProcs : ValidateRedeem(p)
    \/ \E i \in 0..NumVal, r \in References : Redeem(i, r, "login")
    \/ TickLife

SpecRedeem == InitRedeem /\ [][NextRedeem]_vars

----------------------------------------------------------------------------
(* RedisOTPStorage.markRequested and unmarkRequested, called on the storage *)

\* the recipient keys and the blockedForMs the calls are made with
BlockKeys == { toReceipientKey(t) : t \in { x \in Targets : x.value \in {"a@b.c", "+661"} } }
BlockedFor == { TickMs, TickMs + TickMs }

\* markRequested(otpReceipientKey, blockedForMs), lines 30-60; sc: the calls
\* made, in order, each with the time it ran at and the number it returned
MarkRequested(otpReceipientKey, blockedForMs) ==
    /\ Len(sc) < MaxCalls
    /\ LET ran == MarkRequestedScript(blocks[otpReceipientKey], blockedForMs, now)
       IN  /\ blocks' = [blocks EXCEPT ![otpReceipientKey] = ran.block]
           /\ sc' = Append(sc, [ op |-> "markRequested", key |-> otpReceipientKey,
                                 blockedForMs |-> blockedForMs, at |-> now,
                                 ret |-> ran.ret ])
    /\ UNCHANGED <<now, otps, rq, vl, mt, rc, st, gn>>

\* unmarkRequested(otpReceipientKey), lines 67-72
UnmarkRequested(otpReceipientKey) ==
    /\ Len(sc) < MaxCalls
    /\ blocks' = [blocks EXCEPT ![otpReceipientKey] = RedisDecr(@)]
    /\ sc' = Append(sc, [ op |-> "unmarkRequested", key |-> otpReceipientKey,
                          blockedForMs |-> 0, at |-> now, ret |-> 0 ])
    /\ UNCHANGED <<now, otps, rq, vl, mt, rc, st, gn>>

\* markRequested and unmarkRequested calls in every order, while the clock runs
NextBlock ==
    \/ \E k \in BlockKeys, ms \in BlockedFor : MarkRequested(k, ms)
    \/ \E k \in BlockKeys : UnmarkRequested(k)
    \/ TickLife

SpecBlock == Init /\ [][NextBlock]_vars

----------------------------------------------------------------------------
(* generateRandomString and generateOTPAndReference *)

\* A string is the sequence of its characters.  The fragments of a charset:
\* digits, letters, the empty string
Digits == <<"0", "1">>
Letters == <<"A">>
Charsets ==
    { <<>>, << <<>> >>, << <<>>, <<>> >>,
      << Digits >>, << Digits, <<>> >>, << Letters, Digits >> }

\* GenerationConfig, lengths that are refused included
GenerationConfigs == { [charset |-> c, length |-> n] : c \in Charsets, n \in (-1)..MaxLength }

RECURSIVE join(_)
\* config.charset.join('')
join(charset) == IF charset = <<>> THEN <<>> ELSE Head(charset) \o join(Tail(charset))

\* a loop that runs once more
LoopRunsInclusive(i, length) == i <= length

\* the test of the loop, i < config.length
LoopRuns(i, length) == i < length

\* One generateOTPAndReference(otp, reference) call: pc names the
\* generateRandomString call that comes next, run holds the locals of the one
\* under way, calls what each call was given and gave back.
GenerateOf(otpConfig, referenceConfig) ==
    [ otp |-> otpConfig, reference |-> referenceConfig, pc |-> "otp",
      run |-> <<>>, calls |-> <<>> ]

\* generateRandomString(config) up to the loop, lines 142-156
GenerateCall ==
    /\ gn.pc \in {"otp", "reference"}
    /\ gn.run = <<>>
    /\ LET config == gn[gn.pc]
           allCharacters == join(config.charset)
           threw(message) ==
               [gn EXCEPT !.pc = "done",
                          !.calls = Append(@, [config |-> config,
                                               out |-> Threw("Error", message)])]
       IN  gn' = IF Len(config.charset) = 0 THEN threw("Charset cannot be empty")
                 ELSE IF config.length <= 0 THEN threw("Length must be greater than 0")
                 ELSE IF Len(allCharacters) = 0 THEN threw("Combined charset cannot be empty")
                 ELSE [gn EXCEPT !.run = << [allCharacters |-> allCharacters,
                                            i |-> 0, result |-> <<>>] >>]
    /\ UNCHANGED <<now, blocks, otps, rq, vl, mt, rc, st, sc>>

\* lines 158-161, one turn of the loop; randomIndex is what
\* Math.floor(Math.random() * allCharacters.length) came to
GeneratePick(randomIndex) ==
    /\ gn.pc \in {"otp", "reference"}
    /\ gn.run # <<>>
    /\ LoopRuns(gn.run[1].i, gn[gn.pc].length)
    /\ randomIndex \in 0..(Len(gn.run[1].allCharacters) - 1)
    /\ gn' = [gn EXCEPT !.run[1].result = Append(@, gn.run[1].allCharacters[randomIndex + 1]),
                        !.run[1].i = @ + 1]
    /\ UNCHANGED <<now, blocks, otps, rq, vl, mt, rc, st, sc>>

\* line 163: return result; generateOTPAndReference goes on to the reference
\* or returns
GenerateReturn ==
    /\ gn.pc \in {"otp", "reference"}
    /\ gn.run # <<>>
    /\ ~LoopRuns(gn.run[1].i, gn[gn.pc].length)
    /\ gn' = [gn EXCEPT !.pc = IF gn.pc = "otp" THEN "reference" ELSE "done",
                        !.run = <<>>,
                        !.calls = Append(@, [config |-> gn[gn.pc],
                                             out |-> [kind |-> "ok", s |-> gn.run[1].result]])]
    /\ UNCHANGED <<now, blocks, otps, rq, vl, mt, rc, st, sc>>

\* the schemas generateOTPAndReference may be handed
InitGenerate ==
    /\ now = 0
    /\ blocks = [k \in RecipientKeys |-> NoBlock]
    /\ otps = [k \in CompositeKeys |-> NoHash]
    /\ rq = [p \in RaceProcs |-> IdleRequest]
    /\ vl = <<>>
    /\ mt = IdleMatch
    /\ rc = IdleReceipts
    /\ st = IdleStorage
    /\ sc = <<>>
    /\ \E o \in GenerationConfigs, r \in GenerationConfigs : gn = GenerateOf(o, r)

NextGenerate ==
    \/ GenerateCall
    \/ \E randomIndex \in 0..(Len(Digits) + Len(Letters)) : GeneratePick(randomIndex)
    \/ GenerateReturn

SpecGenerate == InitGenerate /\ [][NextGenerate]_vars

----------------------------------------------------------------------------
(* TotemOTP.request under schemas whose otp and reference specs may be invalid *)

RECURSIVE StringOf(_)
\* the string of a sequence of characters
StringOf(characters) ==
    IF characters = <<>> THEN "" ELSE Head(characters) \o StringOf(Tail(characters))

\* the reference specs of the schemas: letters, or nothing to draw from
ReferenceConfigs ==
    { [charset |-> c, length |-> n] :
        c \in { <<>>, << <<>> >>, << Letters >> }, n \in (-1)..MaxLength }

\* the strings generateRandomString can return for a spec
StringsOver(alphabet) ==
    { StringOf(w) : w \in UNION { [1..n -> alphabet] : n \in 1..MaxLength } }

\* the targets that have a schema and a delivery agent
ServedTargets == { t \in Targets : matchSchema(t) # 0 /\ matchDeliveryAgent(t) # 0 }

\* generateOTPAndReference threw: the last generateRandomString call did
GenerationThrew == gn.calls[Len(gn.calls)].out.kind = "Error"

\* a request that calls markRequested before it generates
RequestGeneratedAfterMark(p, target) ==
    /\ rq[p].pc = "idle"
    /\ gn.pc = "done"
    /\ IF GenerationThrew
       THEN /\ blocks' = [blocks EXCEPT ![toReceipientKey(target)] =
                    MarkRequestedScript(@, Schemas[matchSchema(target)].canResendIn, now).block]
            /\ rq' = [rq EXCEPT ![p] =
                  [@ EXCEPT !.pc = "done", !.target = target,
                            !.schema = matchSchema(target), !.nMark = @ + 1,
                            !.result = Outcome("Error", 0)]]
            /\ UNCHANGED <<now, otps, vl, mt, rc, st, gn, sc>>
       ELSE RequestMark(p, target, StringOf(gn.calls[2].out.s), StringOf(gn.calls[1].out.s))

\* request, lines 37-52, once generateOTPAndReference(schema.otp,
\* schema.reference) of line 42 has run: the Error it threw leaves request,
\* or the strings it returned go into the OTPValue and request goes on to
\* markRequested
RequestGenerated(p, target) ==
    /\ rq[p].pc = "idle"
    /\ gn.pc = "done"
    /\ IF GenerationThrew
       THEN /\ rq' = [rq EXCEPT ![p] =
                  [@ EXCEPT !.pc = "done", !.target = target,
                            !.schema = matchSchema(target),
                            !.result = Outcome("Error", 0)]]
            /\ UNCHANGED <<now, blocks, otps, vl, mt, rc, st, gn, sc>>
       ELSE RequestMark(p, target, StringOf(gn.calls[2].out.s), StringOf(gn.calls[1].out.s))

\* a TotemOTP whose schemas carry the otp and reference specs drawn here
InitInvalid ==
    /\ now = 0
    /\ blocks = [k \in RecipientKeys |-> NoBlock]
    /\ otps = [k \in { getCompositeKey(r, v) :
                          r \in StringsOver({ Letters[i] : i \in DOMAIN Letters }),
                          v \in StringsOver({ Letters[i] : i \in DOMAIN Letters }
                                               \cup { Digits[i] : i \in DOMAIN Digits }) }
                  |-> NoHash]
    /\ rq = [p \in RaceProcs |-> IdleRequest]
    /\ vl = <<>>
    /\ mt = IdleMatch
    /\ rc = IdleReceipts
    /\ st = IdleStorage
    /\ sc = <<>>
    /\ \E o \in GenerationConfigs, r \in ReferenceConfigs : gn = GenerateOf(o, r)

\* one request: the generator, then the rest of the call
NextInvalid ==
    \/ GenerateCall
    \/ \E randomIndex \in 0..(Len(Digits) + Len(Letters)) : GeneratePick(randomIndex)
    \/ GenerateReturn
    \/ \E t \in ServedTargets : RequestGenerated(1, t)
    \/ RequestStore(1)
    \/ RequestStoreFails(1)
    \/ RequestSend(1)
    \/ RequestSendFails(1)
    \/ RequestMarkAsSent(1)
    \/ RequestMarkAsSentFails(1)
    \/ RequestUnmark(1)
    \/ RequestUnmarkFails(1)

SpecInvalid == InitInvalid /\ [][NextInvalid]_vars

---------------------------------------------------------------------------
(* Properties *)

\* the validate calls whose fetchAndUsed ran on the stored record under k
Hits(k) ==
    { p \in DOMAIN vl : /\ vl[p].pc \in {"fetched", "done"}
                       /\ vl[p].result.kind # "FetchAndUsedFailed"
                       /\ vl[p].stored
                       /\ getCompositeKey(vl[p].reference, vl[p].value) = k }

\* the fetchAndUsed calls that ran on a pair store has not written, or that
\* is no longer there
Misses ==
    { p \in DOMAIN vl : /\ vl[p].pc \in {"fetched", "done"}
                       /\ vl[p].result.kind # "FetchAndUsedFailed"
                       /\ ~vl[p].stored }

\* the request calls whose markRequested returned a number
Marked == { p \in RaceProcs : rq[p].nMark = 1 /\ rq[p].result.kind # "MarkRequestedFailed" }

\* the request calls in which store, sendMessageToAudience or markAsSent failed
FailedAfterMark == { p \in RaceProcs : rq[p].e # "none" }

\* C1: of the validate calls racing on one stored OTP of a schema with
\* successValidateCount = 1, the counts observed are 1..N, each once: the call
\* that observed 1 returns 1 and every other call fails with OTPUsed.
C1_ExactlyOneValidateWins ==
    \A k \in CompositeKeys :
        LET hits == { p \in Hits(k) : vl[p].otpFromDb.target.type = "email" } IN
        /\ \A p \in hits : vl[p].otpFromDb.used \in 1..Cardinality(hits)
        /\ \A p, q \in hits : p # q => vl[p].otpFromDb.used # vl[q].otpFromDb.used
        /\ \A p \in hits :
             vl[p].pc = "done" =>
                vl[p].result = IF vl[p].otpFromDb.used = 1
                               THEN Outcome("ok", 1)
                               ELSE Outcome("OTPUsed", vl[p].otpFromDb.used)

\* C1 witness: two calls in flight on the same stored OTP; the one that
\* fetched second has already failed while the winner has yet to return.
C1_Witness ==
    \E p, q \in DOMAIN vl :
        /\ p # q
        /\ {p, q} \subseteq Hits(getCompositeKey(vl[p].reference, vl[p].value))
        /\ vl[p].otpFromDb.target.type = "email"
        /\ vl[p].pc = "fetched" /\ vl[p].otpFromDb.used = 1
        /\ vl[q].pc = "done" /\ vl[q].result = Outcome("OTPUsed", 2)

\* C2: fetchAndUsed returns null for every pair that is not stored by store
\* at the time of the call, on every call.
C2_FetchOfUnstoredPairIsNull ==
    \A p \in Misses : ~vl[p].otpFromDb.found

\* C3: validate of a pair that is not stored (wrong value for a known
\* reference, or unknown reference) fails with OTPMismatched, on every call.
C3_UnstoredPairIsMismatched ==
    \A p \in Misses : vl[p].pc = "done" => vl[p].result.kind = "OTPMismatched"

\* C4: of the request calls racing on one recipient key, the one that finds no
\* block passes markRequested (0), and every call whose markRequested runs
\* while another call's block stands fails with ResendBlocked(ttl), ttl > 0.
C4_OneRequestPassesMark ==
    \A p \in Marked :
        /\ ~rq[p].keyWasThere => rq[p].ttls = 0 /\ rq[p].result.kind # "ResendBlocked"
        /\ rq[p].holders # {} =>
              rq[p].ttls > 0 /\ rq[p].result = Outcome("ResendBlocked", rq[p].ttls)

\* C5: no two request calls for one recipient key that completed successfully
\* were let through by markRequested less than canResendIn apart.
C5_OneOtpPerWindow ==
    \A p, q \in RaceProcs :
        ( /\ p # q
          /\ rq[p].result.kind = "ok" /\ rq[q].result.kind = "ok"
          /\ rq[p].markKey = rq[q].markKey
          /\ rq[p].nowEpoch <= rq[q].nowEpoch )
        => rq[q].nowEpoch - rq[p].nowEpoch >= Aging(p).canResendIn

\* C6: a request is rejected with ResendBlocked only while the block of a call
\* that was let through and has not been rolled back stands: never on account
\* of a failed request whose rollback has completed.
C6_RollbackReleases ==
    \A p \in Marked : rq[p].ttls # 0 => rq[p].holders # {}

\* C7: unmarkRequested is called exactly once, with the key markRequested was
\* called with (uniqueIdentifier if set, else type|value), when store,
\* sendMessageToAudience or markAsSent failed, and never otherwise.
C7_UnmarkOnceWithSameKey ==
    \A p \in ReqProcs :
        /\ rq[p].nMark = 1 =>
              rq[p].markKey = IF rq[p].target.uniqueIdentifier \notin {Undefined, ""}
                              THEN rq[p].target.uniqueIdentifier
                              ELSE rq[p].target.type \o "|" \o rq[p].target.value
        /\ rq[p].pc # "done" => rq[p].nUnmark = 0
        /\ rq[p].pc = "done" =>
              IF p \in FailedAfterMark
              THEN rq[p].nMark = 1 /\ rq[p].nUnmark = 1 /\ rq[p].unmarkKey = rq[p].markKey
              ELSE rq[p].nUnmark = 0

\* C7 witness: delivery failed for a target with a uniqueIdentifier, and
\* unmarkRequested was called once with it.
C7_Witness ==
    \E p \in ReqProcs :
        /\ rq[p].pc = "done" /\ rq[p].e = "DeliveryFailed"
        /\ rq[p].target.uniqueIdentifier = "user-1"
        /\ rq[p].nUnmark = 1 /\ rq[p].unmarkKey = "user-1"

\* C8: when store, sendMessageToAudience or markAsSent fails, request rejects
\* with that failure, whatever unmarkRequested does.
C8_OriginalFailureRethrown ==
    \A p \in FailedAfterMark \cap ReqProcs :
        rq[p].pc = "done" => rq[p].result.kind = rq[p].e

\* C9: when markRequested returns t # 0, request fails with ResendBlocked(t)
\* and store, sendMessageToAudience and markAsSent are not called.
C9_BlockedRequestStopsAtMark ==
    \A p \in Marked \cap ReqProcs :
        rq[p].ttls # 0 =>
            /\ rq[p].pc = "done"
            /\ rq[p].result = Outcome("ResendBlocked", rq[p].ttls)
            /\ rq[p].nStore = 0 /\ rq[p].nSend = 0 /\ rq[p].nMarkAsSent = 0

\* C9 witness: a request rejected half a window after the one let through
C9_Witness ==
    \E p \in ReqProcs :
        /\ rq[p].result = Outcome("ResendBlocked", 1000 - TickMs)
        /\ rq[p].nowEpoch = TickMs

\* C10: a request rejected with ResendBlocked leaves the block as it was,
\* counter and expiry, and does not call unmarkRequested.
C10_RejectedRequestLeavesBlock ==
    [][ \A p \in ReqProcs :
           (rq[p].pc = "idle" /\ rq'[p].result.kind = "ResendBlocked")
           => /\ blocks'[rq'[p].markKey] = blocks[rq'[p].markKey]
              /\ rq'[p].nUnmark = 0 ]_vars

\* C11: a validate call made at or after the record's expiresAtMs never
\* succeeds, even while the record is still in storage.
C11_ExpiredOtpNeverValidates ==
    \A p \in DOMAIN vl :
        (vl[p].pc = "done" /\ vl[p].expired) => vl[p].result.kind # "ok"

\* the number of uses the configuration allows the OTP of a target
Allowed(target) == IF target.type = "email" THEN 1 ELSE 2

\* C12: for a record fetched with counter `used` whose target a schema
\* matches, validate returns `used` when used <= successValidateCount and
\* fails with OTPUsed(used) otherwise; so the calls that succeed on one
\* stored OTP are at most successValidateCount.
C12_CountAgainstSuccessValidateCount ==
    /\ \A p \in DOMAIN vl :
          ( /\ vl[p].pc = "done"
            /\ vl[p].otpFromDb.found
            /\ \E i \in 1..Len(Schemas) : Accepts(Schemas[i], vl[p].otpFromDb.target) )
          => vl[p].result =
                IF vl[p].otpFromDb.used <= Allowed(vl[p].otpFromDb.target)
                THEN Outcome("ok", vl[p].otpFromDb.used)
                ELSE Outcome("OTPUsed", vl[p].otpFromDb.used)
    /\ \A k \in CompositeKeys :
          \A p \in Hits(k) :
             Cardinality({ q \in Hits(k) : vl[q].result.kind = "ok" })
                <= Allowed(vl[p].otpFromDb.target)

\* C12 witness: the second use of an OTP that allows two succeeds with 2,
\* after the first succeeded with 1
C12_Witness ==
    \E p, q \in DOMAIN vl :
        /\ vl[p].result = Outcome("ok", 1)
        /\ vl[q].result = Outcome("ok", 2)
        /\ vl[q].otpFromDb.target.type = "msisdn"

LifeKey == getCompositeKey(rq[1].reference, rq[1].value)

\* the calls before p that were made after request(1) had stored
Repeats(p) == { q \in DOMAIN vl : q < p /\ vl[q].afterStore }

LifeStored ==
    /\ rq[1].nStore = 1
    /\ rq[1].e # "StoreFailed"
    /\ rq[1].pc # "store"

\* C15: the record is removed no later than purgeFromDbIn after its creation
\* and never earlier: no fetch finds it after deletableAt = nowEpoch +
\* purgeFromDbIn, and until then it is in storage.
C15_PurgedAtDeletableAt ==
    /\ \A p \in DOMAIN vl : vl[p].stored => ~vl[p].late
    /\ (LifeStored /\ now <= rq[1].nowEpoch + Aging(1).purgeFromDbIn)
          => StoredVerbatim(otps[LifeKey])

\* C16: store is called only after markRequested returned 0,
\* sendMessageToAudience only after store completed, markAsSent only after
\* sendMessageToAudience completed, each once; a request that succeeded has
\* made all four.
C16_CallOrder ==
    [][ \A p \in ReqProcs :
          /\ rq'[p].nStore > rq[p].nStore =>
                /\ rq[p].nMark = 1 /\ rq[p].ttls = 0 /\ rq[p].result = Pending
                /\ rq[p].nStore = 0 /\ rq[p].nSend = 0 /\ rq[p].nMarkAsSent = 0
          /\ rq'[p].nSend > rq[p].nSend =>
                /\ rq[p].nStore = 1 /\ rq[p].e = "none"
                /\ rq[p].nSend = 0 /\ rq[p].nMarkAsSent = 0
          /\ rq'[p].nMarkAsSent > rq[p].nMarkAsSent =>
                /\ rq[p].nSend = 1 /\ rq[p].e = "none"
                /\ rq[p].nMarkAsSent = 0
          /\ rq'[p].result.kind = "ok" =>
                /\ rq'[p].nMark = 1 /\ rq'[p].nStore = 1
                /\ rq'[p].nSend = 1 /\ rq'[p].nMarkAsSent = 1 ]_vars

\* C16 witness: a request that succeeded
C16_Witness ==
    \E p \in ReqProcs :
        /\ rq[p].result.kind = "ok"
        /\ rq[p].nMark = 1 /\ rq[p].nStore = 1 /\ rq[p].nSend = 1 /\ rq[p].nMarkAsSent = 1

\* no entry of the list accepts the target
NoneAccepts(list, target) == \A i \in 1..Len(list) : ~Accepts(list[i], target)

\* i is the first entry of the list, in order, that accepts the target
FirstAccepting(list, target, i) ==
    /\ i \in 1..Len(list)
    /\ Accepts(list[i], target)
    /\ \A j \in 1..(i - 1) : ~Accepts(list[j], target)

\* C17: matchSchema and matchDeliveryAgent each return the first entry, in
\* configuration order, whose match predicate is absent or accepts the
\* target, and fail when no entry qualifies; either result is that of its
\* own list, whatever the other list holds.
C17_FirstMatchInOrder ==
    /\ mt.schema # NotResolved =>
          IF NoneAccepts(mt.schemas, mt.target) THEN mt.schema = 0
          ELSE FirstAccepting(mt.schemas, mt.target, mt.schema)
    /\ mt.agent # NotResolved =>
          IF NoneAccepts(mt.agents, mt.target) THEN mt.agent = 0
          ELSE FirstAccepting(mt.agents, mt.target, mt.agent)

\* C17 witness: schemas [A(false), B(true), C(absent)] give B, while no
\* agent accepts the target
C17_Witness ==
    /\ Len(mt.schemas) = 3
    /\ mt.schemas[1].hasMatch /\ mt.target \notin mt.schemas[1].match
    /\ mt.schemas[2].hasMatch /\ mt.target \in mt.schemas[2].match
    /\ ~mt.schemas[3].hasMatch
    /\ mt.schema = 2
    /\ Len(mt.agents) = 2
    /\ mt.agent = 0

\* C18: a request for a target that no schema or no delivery agent accepts
\* fails at once with NoSchemaMatched or NoDeliveryAgentMatched: it calls
\* none of markRequested, store, sendMessageToAudience, markAsSent and
\* unmarkRequested and leaves the recipient blocks and the records as they were.
C18_UnmatchedRequestHasNoEffect ==
    [][ \A p \in ReqProcs :
          ( /\ rq[p].pc = "idle" /\ rq'[p].pc # "idle"
            /\ \/ NoneAccepts(Schemas, rq'[p].target)
               \/ NoneAccepts(DeliveryAgents, rq'[p].target) )
          => /\ rq'[p].pc = "done"
             /\ rq'[p].result.kind =
                   IF NoneAccepts(Schemas, rq'[p].target)
                   THEN "NoSchemaMatched" ELSE "NoDeliveryAgentMatched"
             /\ rq'[p].nMark = 0 /\ rq'[p].nStore = 0 /\ rq'[p].nSend = 0
             /\ rq'[p].nMarkAsSent = 0 /\ rq'[p].nUnmark = 0
             /\ blocks' = blocks /\ otps' = otps ]_vars

\* C18 witness: one request failed for want of a schema, one for want of a
\* delivery agent
C18_Witness ==
    \E p, q \in ReqProcs :
        /\ rq[p].result.kind = "NoSchemaMatched" /\ rq[p].target.value = "x@y.z"
        /\ rq[q].result.kind = "NoDeliveryAgentMatched" /\ rq[q].target.value = "+15"
        /\ rq[p].nMark = 0 /\ rq[q].nMark = 0

\* the validateReceipt call made and the token issued
Called == rc.call # <<>>
Call == rc.call[1]
Token == rc.token[1]
CalledJose == Called /\ Call.jose

\* the validateReceipt call failed with a receipt-validation error
Rejected == Called /\ Call.result.kind = "ValidationReceiptError"

\* C19: a token made from the OTP record with reference r is rejected by
\* validateReceipt(r', token, purpose) for every r' # r, and a token made
\* with another secret, issuer or audience than the validating generator's
\* is rejected.
C19_ReceiptFailsClosed ==
    ( /\ CalledJose
      /\ \/ Call.reference # Token.ref
         \/ Token.key # Call.generator.sharedSecret
         \/ Token.iss # Call.generator.issuer
         \/ Token.aud # Call.generator.audience )
    => Rejected

\* C19 witness: a token that the generator that made it accepts for its own
\* reference at this time is rejected for another reference
C19_Witness ==
    /\ CalledJose
    /\ Token.key = Call.generator.sharedSecret
    /\ Token.iss = Call.generator.issuer
    /\ Token.aud = Call.generator.audience
    /\ Token.exp * MsPerSecond > Call.at
    /\ Includes(Token.purpose, Call.purpose)
    /\ Token.ref = "R1" /\ Call.reference = "R9"
    /\ Rejected

\* C20: when the receipt the generator returns has expiresAtMs <= now,
\* expiresAtMs = now included, validateReceipt fails with the
\* receipt-validation error 'Receipt has expired', whether or not the
\* purpose asked for is in the receipt; and a jose token validated at or
\* after its expiry is rejected.
C20_ExpiredReceiptRejected ==
    /\ ( /\ Called
         /\ Call.returned.kind = "receipt"
         /\ Call.returned.receipt.expiresAtMs <= Call.at )
       => Call.result = ValidationReceiptError("Receipt has expired")
    /\ ( /\ CalledJose
         /\ Token.exp * MsPerSecond <= Call.at )
       => Rejected

\* C20 witness: a receipt that includes the purpose and expires at the very
\* millisecond of the call
C20_Witness ==
    /\ Called
    /\ Call.returned.kind = "receipt"
    /\ Call.returned.receipt.expiresAtMs = Call.at
    /\ Call.at > 0
    /\ Includes(Call.returned.receipt.purpose, Call.purpose)
    /\ Call.result = ValidationReceiptError("Receipt has expired")

\* C21: when the generator has returned a receipt that has not expired,
\* validateReceipt(reference, token, purpose) returns that receipt, its
\* target, purpose list and expiresAtMs, if the purpose is one of the strings
\* of the list, letter for letter, and else fails with the
\* receipt-validation error naming the purpose; so it is for a jose token
\* validated by the generator that made it.
C21_PurposeMembership ==
    /\ ( /\ Called
         /\ Call.returned.kind = "receipt"
         /\ Call.returned.receipt.expiresAtMs > Call.at )
       => Call.result =
            IF \E i \in 1..Len(Call.returned.receipt.purpose) :
                  Call.returned.receipt.purpose[i] = Call.purpose
            THEN Call.returned
            ELSE ValidationReceiptError(
                    "Receipt does not include purpose: " \o Call.purpose)
    /\ ( /\ CalledJose
         /\ Call.generator = rc.made[1].generator
         /\ Call.reference = Token.ref
         /\ Token.exp * MsPerSecond > Call.at )
       => IF \E i \in 1..Len(Token.purpose) : Token.purpose[i] = Call.purpose
          THEN /\ Call.result.kind = "receipt"
               /\ Call.result.receipt.target = Token.target
               /\ Call.result.receipt.purpose = Token.purpose
               /\ Call.result.receipt.expiresAtMs = Token.exp * MsPerSecond
          ELSE Call.result = ValidationReceiptError(
                    "Receipt does not include purpose: " \o Call.purpose)

\* C21 witness: a receipt for "login" that has not expired is refused for
\* "Login"
C21_Witness ==
    /\ Called
    /\ Call.returned.kind = "receipt"
    /\ Call.returned.receipt.expiresAtMs > Call.at
    /\ Call.returned.receipt.purpose = <<"login">>
    /\ Call.purpose = "Login"
    /\ Call.result.kind = "ValidationReceiptError"

\* C22: what the generator's validateReceipt throws comes out of
\* TotemOTP.validateReceipt as a ValidationReceiptError: an Error with its
\* message kept after the prefix of the class, a ValidationReceiptError as it
\* is, and a rejection that is no Error with the message 'Invalid receipt'.
C22_GeneratorErrorsWrapped ==
    Called =>
        /\ Call.returned.kind = "Error"
              => Call.result = Threw("ValidationReceiptError",
                    "Validation receipt error: " \o Call.returned.message)
        /\ Call.returned.kind = "ValidationReceiptError"
              => Call.result = Call.returned
        /\ Call.returned.kind = "NonError"
              => Call.result = Threw("ValidationReceiptError",
                    "Validation receipt error: Invalid receipt")

\* C22 witness: the Error of a generator has come out with its message
C22_Witness ==
    /\ Called
    /\ Call.returned = Threw("Error", "Token is malformed")
    /\ Call.result.kind = "ValidationReceiptError"
    /\ Call.result.message = "Validation receipt error: Token is malformed"

\* the validate calls that were given a purpose list and have ended
WithPurpose == { p \in DOMAIN vl : vl[p].pc = "done" /\ vl[p].purpose # <<>> }

NewCall == rc'.call[Len(rc'.call)]

\* C24: a validateReceipt call leaves the blocks, the OTP records and the
\* storage instance as they are and is no part of a request or validate
\* call; and whatever calls came before it and whatever has become of the
\* OTP record, a call for the reference of a token and a purpose in it,
\* made before the expiry in the token, returns the receipt.
C24_ReceiptOutlivesOTP ==
    [][ Len(rc'.call) > Len(rc.call) =>
          /\ blocks' = blocks /\ otps' = otps /\ st' = st
          /\ rq' = rq /\ vl' = vl
          /\ rc'.token = rc.token
          /\ ( /\ NewCall.tokenNo \in DOMAIN rc.token
               /\ NewCall.reference = rc.made[NewCall.tokenNo].otp.reference
               /\ \E k \in DOMAIN rc.made[NewCall.tokenNo].purpose :
                     rc.made[NewCall.tokenNo].purpose[k] = NewCall.purpose
               /\ NewCall.at < rc.token[NewCall.tokenNo].exp * MsPerSecond )
             => /\ NewCall.result.kind = "receipt"
                /\ NewCall.result.receipt.expiresAtMs
                      = rc.token[NewCall.tokenNo].exp * MsPerSecond ]_vars

\* C24 witness: one token has been redeemed twice, after its OTP was used up
\* and after the record was purged
C24_Witness ==
    /\ Len(rc.call) >= 2
    /\ rc.call[1].tokenNo = rc.call[2].tokenNo
    /\ rc.call[1].result.kind = "receipt"
    /\ rc.call[2].result.kind = "receipt"
    /\ \E p \in DOMAIN vl : vl[p].result.kind = "OTPUsed"
    /\ otps[getCompositeKey(rc.call[2].reference, "111")] = NoHash

\* the createValidationReceipt call that made the token
Made == rc.made[1]

\* C25: the expiry in the token, and the expiresAtMs validateReceipt
\* returns for it, is the time createValidationReceipt ran at plus the
\* generator's expirationTimeMs.
C25_ExpiryIsIssuedAtPlusTtl ==
    /\ rc.token # <<>>
          => Token.exp * MsPerSecond = Made.nowMs + Made.generator.expirationTimeMs
    /\ (CalledJose /\ Call.returned.kind = "receipt")
          => Call.returned.receipt.expiresAtMs
                = Made.nowMs + Made.generator.expirationTimeMs

\* the fields of IOTPTarget read the same in a and b
SameTarget(a, b) ==
    \A f \in {"type", "value", "uniqueIdentifier"} : Field(a, f) = Field(b, f)

\* C26: the token createValidationReceipt(record, purposes) returned,
\* given before the expiry in it to validateReceipt(record.reference, token)
\* of the same generator, yields the target of the record, field for field,
\* and the purposes in their order, the empty list too.
C26_RoundTrip ==
    ( /\ CalledJose
      /\ Call.generator = Made.generator
      /\ Call.reference = Made.otp.reference
      /\ Call.at < Token.exp * MsPerSecond )
    => /\ Call.returned.kind = "receipt"
       /\ SameTarget(Call.returned.receipt.target, Made.otp.target)
       /\ Call.returned.receipt.purpose = Made.purpose

\* C26 witness: a token made with no purpose for a target whose
\* uniqueIdentifier is the empty string has come back whole
C26_Witness ==
    /\ CalledJose
    /\ Call.generator = Made.generator
    /\ Call.reference = Made.otp.reference
    /\ Made.purpose = <<>>
    /\ Made.otp.target.uniqueIdentifier = ""
    /\ Call.returned.kind = "receipt"
    /\ Call.returned.receipt.target.uniqueIdentifier = ""

\* the key of the OTP of request p
OtpKey(p) == getCompositeKey(rq[p].reference, rq[p].value)

\* C27: the target, reference, value and clock reading a request took
\* before markRequested stay what they are until it returns them; store
\* writes that reference and value with expiresAtMs = now + expiresIn and
\* resendAllowedAtMs = now + canResendIn for that reading, and gives the key
\* the expiry of deletableAt = now + purgeFromDbIn; sendMessageToAudience is
\* given the same reference and value, and markAsSent marks the record
\* under the same reference and value and no other.
C27_OneOTPValue ==
    [][ \A p \in DOMAIN rq :
          /\ rq[p].pc # "idle"
                => /\ rq'[p].target = rq[p].target
                   /\ rq'[p].reference = rq[p].reference
                   /\ rq'[p].value = rq[p].value
                   /\ rq'[p].nowEpoch = rq[p].nowEpoch
                   /\ rq'[p].schema = rq[p].schema
          /\ (rq[p].pc = "store" /\ rq'[p].pc = "send")
                => LET h == otps'[OtpKey(p)].h
                       deletableAt == rq[p].nowEpoch + Aging(p).purgeFromDbIn
                   IN  /\ h.reference = rq[p].reference
                       /\ h.otp_value = rq[p].value
                       /\ h.target_type = rq[p].target.type
                       /\ h.target_value = rq[p].target.value
                       /\ h.expires_at_ms = rq[p].nowEpoch + Aging(p).expiresIn
                       /\ h.resend_allowed_at_ms = rq[p].nowEpoch + Aging(p).canResendIn
                       /\ otps'[OtpKey(p)].exp =
                             IF deletableAt > now
                             THEN now + CeilDiv(deletableAt - now, MsPerSecond) * MsPerSecond
                             ELSE otps[OtpKey(p)].exp
          /\ rq'[p].nSend > rq[p].nSend => rq'[p].sent = OtpKey(p)
          /\ (rq[p].pc = "markAsSent" /\ rq'[p].pc = "done")
                => /\ rq'[p].result.kind = "ok"
                   /\ "receipt_id" \in DOMAIN otps'[OtpKey(p)].h
                   /\ \A k \in DOMAIN otps : k # OtpKey(p) => otps'[k] = otps[k] ]_vars

\* C27 witness: a request has returned its OTPValue; store ran later than
\* the clock was read and wrote the expiresAtMs of the reading
C27_Witness ==
    \E p \in DOMAIN rq :
        /\ rq[p].result.kind = "ok"
        /\ rq[p].sent = OtpKey(p)
        /\ StoredVerbatim(otps[OtpKey(p)])
        /\ otps[OtpKey(p)].h.created_at > rq[p].nowEpoch
        /\ otps[OtpKey(p)].h.expires_at_ms = rq[p].nowEpoch + Aging(p).expiresIn
        /\ "receipt_id" \in DOMAIN otps[OtpKey(p)].h

\* C28: within one request call each of markRequested, store,
\* sendMessageToAudience, markAsSent and unmarkRequested is called at most
\* once and within one validate call fetchAndUsed exactly once; a call whose
\* capability call has failed makes no further call but the one
\* unmarkRequested that undoes the block of a request, and has ended when
\* markRequested, unmarkRequested or fetchAndUsed was the call that failed.
C28_NoRetries ==
    /\ \A p \in DOMAIN rq :
          /\ rq[p].nMark <= 1 /\ rq[p].nStore <= 1 /\ rq[p].nSend <= 1
          /\ rq[p].nMarkAsSent <= 1 /\ rq[p].nUnmark <= 1
          /\ rq[p].result.kind = "MarkRequestedFailed"
                => /\ rq[p].pc = "done"
                   /\ rq[p].nStore + rq[p].nSend + rq[p].nMarkAsSent + rq[p].nUnmark = 0
          /\ rq[p].e # "none" => rq[p].pc \in {"unmark", "done"}
          /\ rq[p].e = "StoreFailed" => rq[p].nSend + rq[p].nMarkAsSent = 0
          /\ rq[p].e = "DeliveryFailed" => rq[p].nMarkAsSent = 0
          /\ rq[p].result.kind = "UnmarkRequestedFailed" => rq[p].pc = "done"
    /\ \A p \in DOMAIN vl :
          /\ vl[p].nFetch = 1
          /\ vl[p].result.kind = "FetchAndUsedFailed"
                => vl[p].pc = "done" /\ ~vl[p].otpFromDb.found

\* C28 witness: a request whose store failed has ended after one store and
\* one unmarkRequested, and a validate call whose fetchAndUsed failed has ended
C28_Witness ==
    /\ \E p \in DOMAIN rq :
          /\ rq[p].pc = "done" /\ rq[p].e = "StoreFailed"
          /\ rq[p].nStore = 1 /\ rq[p].nUnmark = 1
    /\ \E p \in DOMAIN vl : vl[p].result.kind = "FetchAndUsedFailed"

\* this step called a method of the storage
UsesStorage ==
    \/ \E p \in DOMAIN rq :
          rq'[p].nMark + rq'[p].nStore + rq'[p].nMarkAsSent + rq'[p].nUnmark
             > rq[p].nMark + rq[p].nStore + rq[p].nMarkAsSent + rq[p].nUnmark
    \/ Len(vl') > Len(vl)

\* C29: across the request and validate calls of one TotemOTP,
\* configuration.storage() is called at most once, by the first step that
\* uses the storage and by no other step, and the instance it returned is
\* the one every later step uses.
C29_StorageMadeOnce ==
    [][ /\ st'.made <= 1
        /\ (st.storage # NoStorage) => (st'.storage = st.storage)
        /\ UsesStorage => /\ st'.storage # NoStorage
                          /\ st'.made = IF st.storage = NoStorage
                                        THEN st.made + 1 ELSE st.made
        /\ ~UsesStorage => (st' = st) ]_vars

\* C29 witness: a request has returned an OTP and two validate calls have
\* run, all on the one instance the factory was asked for
C29_Witness ==
    /\ st.made = 1 /\ st.storage = 1
    /\ rq[1].result.kind = "ok"
    /\ Len(vl) >= 2

\* C30: generateRandomString, given a charset with a fragment that is not
\* empty and a length above 0, returns a string of exactly length
\* characters, each a character of one of the fragments; and
\* generateOTPAndReference makes one call for the OTP with the otp
\* configuration and then one for the reference with the reference
\* configuration.
C30_GenerateLengthAndCharset ==
    /\ \A c \in DOMAIN gn.calls :
          LET call == gn.calls[c] IN
          ( /\ \E f \in DOMAIN call.config.charset : call.config.charset[f] # <<>>
            /\ call.config.length > 0 )
          => /\ call.out.kind = "ok"
             /\ Len(call.out.s) = call.config.length
             /\ \A k \in DOMAIN call.out.s :
                   \E f \in DOMAIN call.config.charset :
                      \E j \in DOMAIN call.config.charset[f] :
                         call.out.s[k] = call.config.charset[f][j]
    /\ Len(gn.calls) <= 2
    /\ Len(gn.calls) >= 1 => gn.calls[1].config = gn.otp
    /\ Len(gn.calls) = 2 => /\ gn.calls[1].out.kind = "ok"
                            /\ gn.calls[2].config = gn.reference
    /\ (gn.pc = "done" /\ gn.calls[1].out.kind = "ok") => Len(gn.calls) = 2

\* C30 witness: an OTP of MaxLength letters and digits and a reference of one
\* digit have come out of two calls
C30_Witness ==
    /\ gn.pc = "done"
    /\ Len(gn.calls) = 2
    /\ gn.calls[1].out.kind = "ok"
    /\ Len(gn.calls[1].out.s) = MaxLength
    /\ gn.calls[1].out.s[1] = "A"
    /\ gn.calls[1].out.s[MaxLength] = "1"
    /\ gn.calls[2].out = [kind |-> "ok", s |-> <<"0">>]

\* C31: every hash key in Redis holds the fields store writes and has an
\* expiry; fetchAndUsed and markAsSent on a pair that is not stored leave no
\* key behind.
C31_KeysWrittenByStoreWithTTL ==
    \A k \in CompositeKeys :
        otps[k].h # <<>> => /\ StoredVerbatim(otps[k])
                           /\ "target_type" \in DOMAIN otps[k].h
                           /\ "expires_at_ms" \in DOMAIN otps[k].h
                           /\ otps[k].exp # NoTTL

\* C32: the fetchAndUsed calls that ran on the stored record of a pair,
\* however they were interleaved, returned the used values 1..k, each once,
\* and the counter of the record, while it is stored, is k.
C32_FetchCountsEachOnce ==
    \A k \in CompositeKeys :
        LET hits == Hits(k) IN
        /\ \A p \in hits : vl[p].otpFromDb.found
        /\ \A p \in hits : vl[p].otpFromDb.used \in 1..Cardinality(hits)
        /\ \A p, q \in hits : p # q => vl[p].otpFromDb.used # vl[q].otpFromDb.used
        /\ StoredVerbatim(otps[k]) => otps[k].h.used = Cardinality(hits)

\* C32 witness: NumVal calls have run on the stored record of a phone number
\* while none of them has returned, and the counter stands at NumVal
C32_Witness ==
    \E k \in CompositeKeys :
        /\ Cardinality(Hits(k)) = NumVal
        /\ \A p \in Hits(k) : vl[p].pc = "fetched" /\ vl[p].otpFromDb.target.type = "msisdn"
        /\ StoredVerbatim(otps[k]) /\ otps[k].h.used = NumVal

\* the validate call this step has begun, and the key it fetched
NewValidate == vl'[Len(vl')]
NewValidateKey == getCompositeKey(NewValidate.reference, NewValidate.value)

\* the counter HINCRBY finds under a key
UsedOf(k) == IF "used" \in DOMAIN k.h THEN k.h.used ELSE 0

\* C33: the fetchAndUsed of a validate call that finds a record leaves the
\* used counter of that record one higher and returns the new count, and
\* the rest of the call, whatever it comes to (a count, a token, OTPUsed,
\* UnmatchedValidationReceipt, a createValidationReceipt that fails, no
\* schema for the record's target), leaves the records as they are: the use
\* is not given back.
C33_EveryFetchCounts ==
    [][ /\ Len(vl') > Len(vl) =>
              ( NewValidate.otpFromDb.found =>
                   /\ UsedOf(otps'[NewValidateKey]) = UsedOf(otps[NewValidateKey]) + 1
                   /\ NewValidate.otpFromDb.used = UsedOf(otps[NewValidateKey]) + 1 )
        /\ (Len(vl') = Len(vl) /\ vl' # vl) => otps' = otps ]_vars

\* C33 witness: a validate call whose createValidationReceipt failed has
\* taken the one use of an OTP, and the call after it fails with OTPUsed
C33_Witness ==
    \E p, q \in DOMAIN vl :
        /\ vl[p].result.kind = "CreateValidationReceiptFailed"
        /\ vl[p].otpFromDb.used = 1
        /\ vl[q].result = Outcome("OTPUsed", 2)

\* the validate calls that called createValidationReceipt: those that
\* returned a token and those in which the generator failed
CalledGenerator ==
    { p \in DOMAIN vl :
        vl[p].result.kind \in {"token", "CreateValidationReceiptFailed"} }

\* C38: a validate call calls createValidationReceipt only when it was
\* given a purpose list and fetchAndUsed returned a record with used <=
\* successValidateCount; every token the generator made was made from such a
\* record and returned by that call, the calls that fail with OTPMismatched
\* or OTPUsed make none; so the calls made to the generator for the OTP of
\* one request are successValidateCount at most.
C38_ReceiptOnlyForCountedUse ==
    /\ \A p \in CalledGenerator :
          /\ vl[p].purpose # <<>>
          /\ vl[p].otpFromDb.found
          /\ vl[p].otpFromDb.used <= Allowed(vl[p].otpFromDb.target)
    /\ \A p \in DOMAIN vl :
          vl[p].result.kind = "token"
             => /\ vl[p].result.n \in DOMAIN rc.made
                /\ rc.made[vl[p].result.n].otp = vl[p].otpFromDb
                /\ rc.made[vl[p].result.n].purpose = vl[p].purpose[1]
    /\ Len(rc.made) = Cardinality({ p \in DOMAIN vl : vl[p].result.kind = "token" })
    /\ Cardinality(CalledGenerator) <= Allowed(rq[1].target)

\* C38 witness: the one use of an OTP has made a token, and the call with a
\* purpose list after it has failed with OTPUsed and made none
C38_Witness ==
    /\ Len(rc.token) = 1
    /\ \E p, q \in DOMAIN vl :
          /\ vl[p].result = Outcome("token", 1)
          /\ vl[q].purpose # <<>>
          /\ vl[q].result = Outcome("OTPUsed", 2)

\* C34: when the store of a request writes its record, no record is held
\* under the reference and value it writes, so no record still in storage
\* has its target replaced or its used counter set back.
C34_StoreNeverOverwrites ==
    [][ \A p \in DOMAIN rq :
          (rq[p].pc = "store" /\ rq'[p].pc = "send")
             => ~StoredVerbatim(otps[OtpKey(p)]) ]_vars

\* C35: a request that has rejected made no sendMessageToAudience call that
\* resolved.
C35_RejectedMeansNotDelivered ==
    \A p \in DOMAIN rq :
        (rq[p].pc = "done" /\ rq[p].result.kind # "ok")
           => (rq[p].nSend = 0 \/ rq[p].e = "DeliveryFailed")

\* the call this step has made on the storage, and the calls before it on
\* its key
NewStorageCall == sc'[Len(sc')]
MarkOn(i, key) == sc[i].op = "markRequested" /\ sc[i].key = key
UnmarkOn(i, key) == sc[i].op = "unmarkRequested" /\ sc[i].key = key

\* C36: unmarkRequested leaves the counter of its key one lower and the
\* expiry of the key as it was, a key that was not there included (the call
\* returns and the key holds -1), and touches no other key; and after a
\* markRequested that returned 0, a second markRequested and then the one
\* unmarkRequested made since, a markRequested inside the window of the
\* first returns a number above 0.
C36_UnmarkTakesOneCount ==
    [][ Len(sc') > Len(sc) =>
          LET c == NewStorageCall
              b == blocks[c.key]
              a == blocks'[c.key]
          IN  /\ c.op = "unmarkRequested"
                    => /\ a.present
                       /\ a.count = b.count - 1
                       /\ a.exp = b.exp
                       /\ \A k \in DOMAIN blocks : k # c.key => blocks'[k] = blocks[k]
              /\ ( /\ c.op = "markRequested"
                   /\ \E g, m, u \in DOMAIN sc :
                         /\ g < m /\ m < u
                         /\ MarkOn(g, c.key) /\ sc[g].ret = 0
                         /\ MarkOn(m, c.key)
                         /\ UnmarkOn(u, c.key)
                         /\ \A j \in DOMAIN sc : (j > g /\ j # u) => ~UnmarkOn(j, c.key)
                         /\ c.at < sc[g].at + sc[g].blockedForMs )
                 => c.ret > 0 ]_vars

\* C36 witness: two markRequested calls, an unmarkRequested and a third
\* markRequested on one key inside one window; the third was refused
C36_Witness ==
    /\ Len(sc) = 4
    /\ \A i \in DOMAIN sc : sc[i].key = sc[1].key
    /\ sc[1].op = "markRequested" /\ sc[1].ret = 0
    /\ sc[2].op = "markRequested" /\ sc[2].ret > 0
    /\ sc[3].op = "unmarkRequested"
    /\ sc[4].op = "markRequested" /\ sc[4].ret > 0
    /\ sc[4].at > sc[1].at

\* the markRequested calls on a key that returned 0
Grants(key) == { g \in DOMAIN sc : MarkOn(g, key) /\ sc[g].ret = 0 }

\* C37: markRequested returns 0 exactly when it leaves its key a block of
\* its own (counter 1, expiring blockedForMs from now); otherwise it returns
\* the time r left of the block that was there, 0 < r <= the blockedForMs of
\* the call that made that block, and leaves the expiry as it was; a call
\* made when the window of every call that returned 0 has elapsed returns 0;
\* and no call touches the block of another key.
C37_MarkReturnsZeroIffItBlocks ==
    [][ (Len(sc') > Len(sc) /\ NewStorageCall.op = "markRequested") =>
          LET c == NewStorageCall
              b == blocks[c.key]
              a == blocks'[c.key]
          IN  /\ c.ret = 0 <=> (a.present /\ a.count = 1 /\ a.exp = c.at + c.blockedForMs)
              /\ c.ret # 0
                    => /\ c.ret > 0
                       /\ c.ret = b.exp - c.at
                       /\ a.exp = b.exp
                       /\ a.count = b.count + 1
                       /\ \E g \in Grants(c.key) :
                             /\ b.exp = sc[g].at + sc[g].blockedForMs
                             /\ c.ret <= sc[g].blockedForMs
              /\ (\A g \in Grants(c.key) : c.at >= sc[g].at + sc[g].blockedForMs)
                    => c.ret = 0
              /\ \A k \in DOMAIN blocks : k # c.key => blocks'[k] = blocks[k] ]_vars

\* C37 witness: on one key a call was let through, a later call was
\* refused with the time left, and a call made when the window had elapsed
\* was let through; a call on the other key was let through in between
C37_Witness ==
    \E g, r, n, o \in DOMAIN sc :
        /\ g < r /\ r < n
        /\ sc[g].op = "markRequested" /\ sc[g].ret = 0
        /\ MarkOn(r, sc[g].key) /\ sc[r].at > sc[g].at
        /\ sc[r].ret = sc[g].at + sc[g].blockedForMs - sc[r].at
        /\ sc[r].ret > 0
        /\ MarkOn(n, sc[g].key) /\ sc[n].ret = 0
        /\ g < o /\ o < n
        /\ sc[o].op = "markRequested" /\ sc[o].key # sc[g].key /\ sc[o].ret = 0

\* C40: a markRequested call made on a key that is not there, that has no
\* expiry (the counter an unmarkRequested left on a missing or expired
\* block) or whose expiry has been reached returns 0, and every
\* markRequested call leaves its key with an expiry no further away than
\* the longest blockedForMs, so that no block is without end.
C40_NoPermanentLockout ==
    [][ (Len(sc') > Len(sc) /\ NewStorageCall.op = "markRequested") =>
          LET c == NewStorageCall
              b == blocks[c.key]
              a == blocks'[c.key]
          IN  /\ (~b.present \/ b.exp = NoTTL \/ c.at >= b.exp) => c.ret = 0
              /\ a.present
              /\ a.exp # NoTTL
              /\ \E ms \in BlockedFor : a.exp <= c.at + ms ]_vars

\* C40 witness: an unmarkRequested on a key that was never blocked, and one
\* on a block that had expired, were each followed by a markRequested that
\* returned 0
C40_Witness ==
    /\ Len(sc) = 4
    /\ \A i \in DOMAIN sc : sc[i].key = sc[1].key
    /\ sc[1].op = "unmarkRequested"
    /\ sc[2].op = "markRequested" /\ sc[2].ret = 0
    /\ sc[3].op = "unmarkRequested" /\ sc[3].at > sc[2].at + sc[2].blockedForMs
    /\ sc[4].op = "markRequested" /\ sc[4].ret = 0

\* a GenerationConfig with nothing to draw: no fragment, only empty
\* fragments, or a length that is not above 0
InvalidSpec(config) ==
    \/ config.charset = <<>>
    \/ \A f \in DOMAIN config.charset : config.charset[f] = <<>>
    \/ config.length <= 0

\* C39: a request under a schema whose otp or reference spec is invalid
\* ends with the Error of the generator and has called neither
\* markRequested nor store nor sendMessageToAudience; no recipient is
\* blocked and no record is stored.
C39_InvalidSpecFailsBeforeMark ==
    (InvalidSpec(gn.otp) \/ InvalidSpec(gn.reference)) =>
        /\ \A p \in DOMAIN rq :
              /\ rq[p].pc \in {"idle", "done"}
              /\ rq[p].pc = "done" => rq[p].result = Outcome("Error", 0)
              /\ rq[p].nMark + rq[p].nStore + rq[p].nSend + rq[p].nMarkAsSent
                    + rq[p].nUnmark = 0
        /\ \A k \in DOMAIN blocks : blocks[k] = NoBlock
        /\ \A k \in DOMAIN otps : otps[k] = NoHash
        /\ st = IdleStorage

\* C39 witness: under a schema whose otp spec is valid and whose reference
\* spec has only empty fragments, a request has ended with the Error
C39_Witness ==
    /\ ~InvalidSpec(gn.otp)
    /\ gn.reference.charset = << <<>> >>
    /\ gn.reference.length > 0
    /\ rq[1].pc = "done"
    /\ rq[1].result = Outcome("Error", 0)
    /\ Len(gn.calls) = 2
    /\ gn.calls[2].out.message = "Combined charset cannot be empty"

====
